---------------------------- MODULE Spec2Model ----------------------------
(***************************************************************************)
(* Model of the zepben EAS client (zepben/eas-client-python).              *)
(*                                                                         *)
(*  - the transport layer of EasClient: _do_post_request, _do_get_request  *)
(*    and the paged scan of async_get_opendss_model;                       *)
(*  - the wire mapper: snake_to_camel, HostingCapacityDataclass.to_json,   *)
(*    OpenDssConfig.to_json and the enumerations;                          *)
(*  - TimePeriod construction and validation;                              *)
(*  - field selection: build_gql_query_object_model;                       *)
(*  - the Gateway Client: construction, the payloads of its operations,    *)
(*    the warning filters of the process, tasks sharing one client;        *)
(*  - the two forms of every operation: the blocking method, which hands   *)
(*    the coroutine to run_until_complete, and the coroutine itself.       *)
(*                                                                         *)
(* Python values are tagged records [t |-> <type>, ...]; attribute and     *)
(* wire names are sequences of one-character strings so that splitting     *)
(* and case conversion are computed, not assumed.                          *)
(***************************************************************************)
EXTENDS Integers, Sequences, FiniteSets, TLC

VARIABLES
    op,      \* name of the operation invoked last ("none" before the first)
    arg,     \* its argument(s)
    resp,    \* the HTTP response the transport handed to the handler last
    res,     \* outcome of the invocation: [kind |-> "return" | "raise" | "pending" | "none", ...]
    sent,    \* HTTP requests the current invocation has handed to the session, in order
    coll,    \* server side: the collection of OpenDSS model records
    offset,  \* async_get_opendss_model: local variable offset
    filters, \* warnings.filters of the process: the entries added since it started,
             \* most recent first
    pc       \* "idle": no call in progress; "awaiting": the handler has handed its
             \* request to the session and waits for the answer (the event loop
             \* runs whatever else is ready); "reading": the handler was resumed
             \* with a response that is ok and waits in "await response.json()"
             \* for its body; "loop": async_get_opendss_model is about to request
             \* a page; "done": the call has produced its outcome

vars == <<op, arg, resp, res, sent, coll, offset, filters, pc>>

NoArg == [t |-> "none"]
NoResp == [status |-> 0]
NoRes == [kind |-> "none"]

(***************************************************************************)
(* HTTP transport: EasClient._do_post_request / _do_get_request            *)
(***************************************************************************)

HasErrors(body) == "errors" \in DOMAIN body

\* Location header values; NoLocation: the header is absent.
NoLocation == "<absent>"

\* What a server may answer: a status (as seen by the handler), a parsed
\* JSON body and a Location header.
Responses ==
    [ status : {200, 201, 204, 300, 301, 302, 303, 304, 307, 400, 401, 403, 404, 500, 503},
      body : { [result |-> "success"],
               [data |-> "123.45"],
               [data |-> "partial", errors |-> <<"field error">>],
               [errors |-> <<"syntax error", "validation error">>] },
      location : {NoLocation, "https://example.com/download/1", ""} ]

\* response.ok of the transport: status below 400.
responseOk(r) == r.status < 400

\* response.raise_for_status(): raises ClientResponseError carrying the
\* status when the response is not ok, and returns None otherwise.
raise_for_status(r) ==
    IF responseOk(r)
    THEN [kind |-> "return", val |-> [t |-> "none"]]
    ELSE [kind |-> "raise", err |-> "ClientResponseError", status |-> r.status]

\* EasClient.build_request: the "variables" key is added only when supplied.
NoVariables == [t |-> "none"]
build_request(query, variables) ==
    IF variables = NoVariables
    THEN [query |-> query]
    ELSE [query |-> query, variables |-> variables]

\* The POST request as handed to session.post.
PostRequest(json) ==
    [method |-> "POST", path |-> <<"/api/graphql">>, json |-> json, allow_redirects |-> TRUE]

\* The GET request as handed to session.get.
GetRequest(run_id) ==
    [method |-> "GET", path |-> <<"/api/opendss-model/", run_id>>,
     json |-> [t |-> "none"], allow_redirects |-> FALSE]

\* Body of "async with session.post(...) as response" in _do_post_request.
do_post_requestNoRaise(r) == [kind |-> "return", val |-> r.body]
do_post_requestMutant(r) ==
    IF responseOk(r) /\ ~HasErrors(r.body)
    THEN [kind |-> "return", val |-> r.body]
    ELSE IF responseOk(r)
         THEN [kind |-> "raise", err |-> "GraphQLError", status |-> r.status]
         ELSE raise_for_status(r)
do_post_request(r) ==
    IF responseOk(r)
    THEN [kind |-> "return", val |-> r.body]
    ELSE raise_for_status(r)

\* Body of "async with session.get(...) as response" in _do_get_request.
HTTPStatus_FOUND == 302
do_get_request(r) ==
    IF r.status = HTTPStatus_FOUND
    THEN IF r.location = NoLocation
         THEN [kind |-> "raise", err |-> "KeyError", status |-> r.status]
         ELSE [kind |-> "return", val |-> [t |-> "str", v |-> r.location]]
    ELSE IF ~responseOk(r)
         THEN raise_for_status(r)
         ELSE [kind |-> "return", val |-> [t |-> "none"]]

\* EasClient._do_request: warnings.filterwarnings("ignore",
\* category=InsecureRequestWarning) when certificates are not verified; the
\* entry goes to the front of the filters, replacing an equal one.
do_request(self, fs) ==
    IF ~self.verify_certificate
    THEN LET item == [action |-> "ignore", category |-> "InsecureRequestWarning"]
         IN  <<item>> \o SelectSeq(fs, LAMBDA f : f # item)
    ELSE fs

\* The decorator catch_warnings around the coroutine functions
\* _do_post_request and _do_get_request: "with warnings.catch_warnings():
\* return func(...)" saves the filters, calls func, which creates the
\* coroutine without running any of its body, and restores the filters; the
\* body, and with it _do_request, runs when the coroutine is awaited.  The
\* filters once the body has reached its session.post / session.get.
catch_warnings(self, fs) ==
    LET saved == fs        \* __enter__
        created == saved   \* func(*args, **kwargs): the coroutine object
        restored == saved  \* __exit__
    IN  do_request(self, restored)

\* The operations whose handler reaches _do_post_request when called with
\* arguments of the declared types, each with variables as its handler
\* builds them (None for a body without variables).  createOpenDssModel
\* reaches it for a config whose load_time the mapper accepts: the entry is
\* the input of OpenDssConfig("s", 2025, "f", load_time=None).  The
\* handlers of runWorkPackage, getWorkPackageCostEstimation,
\* getWorkPackageProgress, runFeederLoadAnalysis, uploadStudy, getIngestorRun
\* and listIngestorRuns raise AttributeError while the body is built (their
\* classes are plain dataclasses) and are not among them.
PostOps ==
    [ cancelWorkPackage |-> [t |-> "map", v |-> [workPackageId |-> "1"]],
      executeIngestor |-> [t |-> "map", v |-> [runConfig |-> <<[key |-> "k", value |-> "v"]>>]],
      runCalibration |-> [t |-> "map", v |-> [calibrationName |-> "1", calibrationTimeLocal |-> "2025-07-12T00:00:00",
                                               feeders |-> NoVariables, generatorConfig |-> NoVariables]],
      getCalibrationRun |-> [t |-> "map", v |-> [id |-> "1"]],
      getCalibrationSets |-> NoVariables,
      getTransformerTapSettings |-> [t |-> "map", v |-> [calibrationName |-> "1", feeder |-> NoVariables,
                                                          transformerMrid |-> NoVariables]],
      createOpenDssModel |->
          [t |-> "map",
           v |-> [input |-> [loadTime |-> NoVariables, modelName |-> NoVariables, isPublic |-> NoVariables,
                             generationSpec |->
                                 [modelOptions |-> [feeder |-> "f", scenario |-> "s", year |-> 2025],
                                  modulesConfiguration |-> [common |-> <<>>, generator |-> NoVariables]]]]],
      pagedOpenDssModels |-> [t |-> "map", v |-> [limit |-> 20, offset |-> 0]] ]

\* The operation the caller invoked last.
Called(name) == op = name
IsPost == op \in DOMAIN PostOps

\* A POST operation is called, in its blocking form or as a coroutine: the
\* handler builds the request and runs, without giving up control, up to
\* "async with self.session.post(...)" of _do_post_request, where the
\* request is handed to the session and the handler waits for the answer.
PostOperation ==
    /\ pc = "idle"
    /\ \E o \in DOMAIN PostOps, verify_certificate \in BOOLEAN :
          /\ op' = o
          /\ arg' = [self |-> [verify_certificate |-> verify_certificate], variables |-> PostOps[o]]
          /\ sent' = <<PostRequest(build_request(o, PostOps[o]))>>
          /\ filters' = catch_warnings(arg'.self, filters)
    /\ res' = [kind |-> "pending"]
    /\ pc' = "awaiting"
    /\ UNCHANGED <<resp, coll, offset>>

\* get_opendss_model_download_url(run_id) is called: up to "async with
\* self.session.get(...)" of _do_get_request.
get_opendss_model_download_url ==
    /\ pc = "idle"
    /\ \E id \in {1, 2}, verify_certificate \in BOOLEAN :
          /\ arg' = [t |-> "int", v |-> id, self |-> [verify_certificate |-> verify_certificate]]
          /\ sent' = <<GetRequest(id)>>
          /\ filters' = catch_warnings(arg'.self, filters)
    /\ op' = "get_opendss_model_download_url"
    /\ res' = [kind |-> "pending"]
    /\ pc' = "awaiting"
    /\ UNCHANGED <<resp, coll, offset>>

\* The answer to the request arrives and the event loop resumes the handler
\* inside "async with ... as response".  _do_post_request with a response
\* that is ok goes on to "await response.json()" and waits for the body;
\* otherwise the response is interpreted at once and the call is over.
async_with_response ==
    /\ pc = "awaiting"
    /\ IsPost \/ Called("get_opendss_model_download_url")
    /\ \E r \in Responses :
          /\ resp' = r
          /\ IF sent[1].method = "POST"
             THEN IF responseOk(r)
                  THEN res' = res /\ pc' = "reading"
                  ELSE res' = do_post_request(r) /\ pc' = "done"
             ELSE res' = do_get_request(r) /\ pc' = "done"
    /\ UNCHANGED <<op, arg, sent, coll, offset, filters>>

\* The body of the response is in and the event loop resumes the handler in
\* "return await response.json()" of _do_post_request: the call is over.
response_json ==
    /\ pc = "reading"
    /\ IsPost
    /\ res' = do_post_request(resp)
    /\ pc' = "done"
    /\ UNCHANGED <<op, arg, resp, sent, coll, offset, filters>>

InitCommon ==
    /\ op = "none"
    /\ arg = NoArg
    /\ resp = NoResp
    /\ res = NoRes
    /\ sent = <<>>
    /\ offset = 0
    /\ filters = <<>>
    /\ pc = "idle"

\* The call has returned or raised to its caller; the client keeps nothing of
\* it and is ready for the next call.
Finish ==
    /\ pc = "done"
    /\ pc' = "idle"
    /\ op' = "none"
    /\ arg' = NoArg
    /\ resp' = NoResp
    /\ res' = NoRes
    /\ sent' = <<>>
    /\ offset' = 0
    /\ UNCHANGED <<coll, filters>>

\* No server-side collection takes part.
InitEmpty == InitCommon /\ coll = <<>>
NextHttp ==
    PostOperation \/ get_opendss_model_download_url \/ async_with_response \/ response_json \/ Finish
SpecHttp == InitEmpty /\ [][NextHttp]_vars

(***************************************************************************)
(* Claims about response interpretation (checked under SpecHttp)           *)
(***************************************************************************)

Is2xx(s) == s >= 200 /\ s <= 299

\* C1: for every operation sent through the POST path, a response with a
\* success (2xx) status makes the call return the parsed body unchanged; a
\* body holding a GraphQL "errors" array is returned as data, never raised.
C1_PostSuccessReturnsBody ==
    (IsPost /\ pc = "done" /\ Is2xx(resp.status)) =>
        /\ res.kind = "return"
        /\ res.val = resp.body
        /\ HasErrors(resp.body) => HasErrors(res.val)

C1_Witness ==
    /\ IsPost
    /\ pc = "done"
    /\ resp.status = 200
    /\ HasErrors(resp.body)
    /\ res.kind = "return"
    /\ res.val = resp.body

\* C2 as stated: every POST response whose status is not 2xx raises an error
\* carrying the status, and no 3xx/4xx/5xx response is returned normally.
C2_Original_Non2xxRaises ==
    (IsPost /\ pc = "done" /\ ~Is2xx(resp.status)) =>
        /\ res.kind = "raise"
        /\ res.status = resp.status

\* C2 amended: a POST response raises, carrying its status, exactly when its
\* status is 400 or above; no 4xx/5xx response is returned normally, and a
\* response below 400 (2xx, or a 3xx handed through by the transport) is
\* returned as a normal result.
C2_PostRaisesFrom400 ==
    (IsPost /\ pc = "done") =>
        /\ (resp.status >= 400) <=> (res.kind = "raise")
        /\ res.kind = "raise" => res.status = resp.status
        /\ res.kind = "return" => res.val = resp.body

C2_Witness ==
    /\ IsPost
    /\ pc = "done"
    /\ resp.status = 404
    /\ res.kind = "raise"
    /\ res.status = 404

\* C3 as stated: get_opendss_model_download_url issues exactly one GET to
\* /api/opendss-model/{run_id} with redirects disabled; 302 returns the
\* Location header, 2xx returns None, every other status (other 3xx, 4xx,
\* 5xx) raises.  Violated: _do_get_request raises only when the response is
\* not ok (status 400 or above), so 301, 303 and 307 fall through both
\* branches and the call returns None.
C3_Original_OtherStatusRaises ==
    Called("get_opendss_model_download_url") =>
        /\ Len(sent) = 1
        /\ sent[1] = GetRequest(arg.v)
        /\ pc = "done" =>
              /\ (resp.status = 302 /\ resp.location # NoLocation) =>
                     res = [kind |-> "return", val |-> [t |-> "str", v |-> resp.location]]
              /\ Is2xx(resp.status) => res = [kind |-> "return", val |-> [t |-> "none"]]
              /\ (resp.status # 302 /\ ~Is2xx(resp.status)) => res.kind = "raise"

(***************************************************************************)
(* The paged scan: EasClient.async_get_opendss_model                       *)
(***************************************************************************)

\* page_size of async_get_opendss_model.
page_size == 20

\* Largest server-side collection considered (three pages: 20 + 20 + 1).
MaxModels == 41

\* The id looked for that may be in the collection, and one that never is.
TargetId == 7

\* A model record as the server sends it: its id and the rest of the record
\* (name, state, ...: here its position in the collection).

\* Server-side collections: n records of which at most two carry TargetId.
Collections ==
    { [i \in 1..n |-> [id |-> IF i \in {h1, h2} \ {0} THEN TargetId ELSE 1000 + i, name |-> i]] :
        <<n, h1, h2>> \in { t \in (0..MaxModels) \X (0..MaxModels) \X (0..MaxModels) :
                               t[2] <= t[1] /\ t[3] <= t[2] /\ (t[2] = 0 => t[3] = 0) } }

\* The server's answer to pagedOpenDssModels(limit, offset): the total count
\* and the records at positions offset+1 .. offset+limit.
pagedOpenDssModels(c, limit, off) ==
    [totalCount |-> Len(c),
     offset |-> off,
     models |-> SubSeq(c, off + 1, IF off + limit <= Len(c) THEN off + limit ELSE Len(c))]

\* The request async_get_paged_opendss_models(limit, offset) sends: only the
\* supplied arguments become variables.
paged_opendss_models_json(limit, off) ==
    [query |-> "pagedOpenDssModels",
     variables |-> [t |-> "map", v |-> [limit |-> limit, offset |-> off]]]

\* "for model in models: if model['id'] == model_id: return model": index of
\* the first record of the page with the id, 0 when there is none.
find_modelMutant(models, model_id) ==
    IF \E i \in 1..Len(models) : models[i].id = model_id
    THEN CHOOSE i \in 1..Len(models) :
            /\ models[i].id = model_id
            /\ \A j \in 1..(i - 1) : models[j].id # model_id
    ELSE IF Len(models) > 0 THEN 1 ELSE 0
\* (a scan of the page that stops one record short)
find_modelShort(models, model_id) ==
    IF \E i \in 1..(Len(models) - 1) : models[i].id = model_id
    THEN CHOOSE i \in 1..(Len(models) - 1) :
            /\ models[i].id = model_id
            /\ \A j \in 1..(i - 1) : models[j].id # model_id
    ELSE 0
find_model(models, model_id) ==
    IF \E i \in 1..Len(models) : models[i].id = model_id
    THEN CHOOSE i \in 1..Len(models) :
            /\ models[i].id = model_id
            /\ \A j \in 1..(i - 1) : models[j].id # model_id
    ELSE 0

\* "offset += page_count"
next_offsetMutant(off, page_count) == off + page_count + 1
next_offset(off, page_count) == off + page_count

\* get_opendss_model(model_id) is called: offset = 0, then the loop.
get_opendss_model ==
    \E id \in {TargetId, (9)}, verify_certificate \in BOOLEAN :
        /\ pc = "idle"
        /\ pc' = "loop"
        /\ op' = "get_opendss_model"
        /\ arg' = [t |-> "int", v |-> id, self |-> [verify_certificate |-> verify_certificate]]
        /\ offset' = 0
        /\ sent' = <<>>
        /\ res' = [kind |-> "pending"]
        /\ UNCHANGED <<resp, coll, filters>>

\* "response = await self.async_get_paged_opendss_models(page_size, offset)"
\* up to the session.post of _do_post_request: the page request is handed
\* to the session and the scan waits for the answer.
get_opendss_model_page ==
    /\ pc = "loop"
    /\ pc' = "awaiting"
    /\ sent' = Append(sent, PostRequest(paged_opendss_models_json(page_size, offset)))
    /\ filters' = catch_warnings(arg.self, filters)
    /\ UNCHANGED <<op, arg, resp, res, coll, offset>>

\* The server that holds coll answers the page request with the page
\* requested, as the collection is at that moment; the event loop resumes
\* _do_post_request with the response, which goes on to
\* "await response.json()".
get_opendss_model_page_resumes ==
    /\ pc = "awaiting"
    /\ Called("get_opendss_model")
    /\ resp' = [status |-> 200,
                body |-> [data |-> [pagedOpenDssModels |-> pagedOpenDssModels(coll, page_size, offset)]],
                location |-> NoLocation]
    /\ pc' = "reading"
    /\ UNCHANGED <<op, arg, res, sent, coll, offset, filters>>

\* The body is in and the scan is resumed with it: the rest of an iteration
\* of "while True": look for the id in the page, advance the offset, stop at
\* the total count.
async_get_opendss_model_iteration ==
    /\ pc = "reading"
    /\ Called("get_opendss_model")
    /\ LET page == resp.body.data.pagedOpenDssModels
           total_count == page.totalCount
           page_count == Len(page.models)
           hit == find_model(page.models, arg.v)
       IN  IF hit # 0
           THEN /\ res' = [kind |-> "return", val |-> page.models[hit]]
                /\ pc' = "done"
                /\ offset' = offset
           ELSE /\ offset' = next_offset(offset, page_count)
                /\ IF offset' >= total_count  \* break, then raise ValueError("Model id ... was not found")
                   THEN res' = [kind |-> "raise", err |-> "ValueError", id |-> arg.v] /\ pc' = "done"
                   ELSE res' = res /\ pc' = "loop"
    /\ UNCHANGED <<op, arg, resp, sent, coll, filters>>

NextScan ==
    \/ get_opendss_model
    \/ get_opendss_model_page
    \/ get_opendss_model_page_resumes
    \/ async_get_opendss_model_iteration
    \/ Finish
InitScan == InitCommon /\ coll \in Collections
SpecScan == InitScan /\ [][NextScan]_vars

\* Page requests of a scan against an arbitrary server that are followed.
MaxRequests == 3

\* The successful answers a server may give to a page request at offset off,
\* whatever it holds: any reported total, a page of no, one or page_size
\* models, with or without a record carrying TargetId.
ServedPages(off) ==
    { [totalCount |-> total, offset |-> off,
       models |-> [i \in 1..n |-> [id |-> IF i = h THEN TargetId ELSE 1000 + off + i,
                                   name |-> off + i]]] :
        total \in {0, 1, page_size, MaxModels}, n \in {0, 1, page_size}, h \in {0, 1} }

\* The page request of a scan, for the first MaxRequests page requests.
get_opendss_model_page_bounded ==
    /\ Len(sent) < MaxRequests
    /\ get_opendss_model_page

\* Such a server answers the page request; the event loop resumes
\* _do_post_request with the response, which goes on to
\* "await response.json()".
get_opendss_model_page_served ==
    /\ pc = "awaiting"
    /\ Called("get_opendss_model")
    /\ \E page \in ServedPages(offset) :
          resp' = [status |-> 200, body |-> [data |-> [pagedOpenDssModels |-> page]],
                   location |-> NoLocation]
    /\ pc' = "reading"
    /\ UNCHANGED <<op, arg, res, sent, coll, offset, filters>>

\* The scan against an arbitrary server whose answers are successful ones.
NextServed ==
    \/ get_opendss_model
    \/ get_opendss_model_page_bounded
    \/ get_opendss_model_page_served
    \/ async_get_opendss_model_iteration
    \/ Finish
SpecServed == InitEmpty /\ [][NextServed]_vars

(***************************************************************************)
(* Claims about the paged scan (checked under SpecScan)                    *)
(***************************************************************************)

\* Positions of the records of the collection that carry the id.
PositionsOf(c, id) == { i \in 1..Len(c) : c[i].id = id }
FirstPositionOf(c, id) == CHOOSE i \in PositionsOf(c, id) : \A j \in PositionsOf(c, id) : i <= j
\* The page (1-based) that holds position p when pages hold page_size records.
PageOf(p) == ((p - 1) \div page_size) + 1

\* C4: when the id first appears on page k of the listing, the scan issues
\* exactly k page requests (limit page_size, offsets 0, page_size, ...), none
\* after the match, and returns the matching record as the server sent it.
C4_FoundOnPageK ==
    (Called("get_opendss_model") /\ pc = "done" /\ PositionsOf(coll, arg.v) # {}) =>
        LET p == FirstPositionOf(coll, arg.v)
            k == PageOf(p)
        IN  /\ res = [kind |-> "return", val |-> coll[p]]
            /\ Len(sent) = k
            /\ \A i \in 1..k :
                   sent[i] = PostRequest(paged_opendss_models_json(page_size, (i - 1) * page_size))

C4_Witness ==
    /\ Called("get_opendss_model")
    /\ pc = "done"
    /\ Len(coll) > 2 * page_size
    /\ PositionsOf(coll, arg.v) # {}
    /\ PageOf(FirstPositionOf(coll, arg.v)) = 2
    /\ Len(sent) = 2
    /\ res.kind = "return"
    /\ res.val = coll[FirstPositionOf(coll, arg.v)]

\* C5: when the offset reaches the server-reported total count and no
\* scanned page held the id, the call raises a not-found error carrying the
\* requested id; the call never returns a record with another id.
C5_NotFoundRaises ==
    (Called("get_opendss_model") /\ pc = "done") =>
        /\ PositionsOf(coll, arg.v) = {} =>
               /\ res = [kind |-> "raise", err |-> "ValueError", id |-> arg.v]
               /\ offset >= Len(coll)
        /\ res.kind = "return" => res.val.id = arg.v
        /\ res.kind = "raise" => PositionsOf(coll, arg.v) = {}

C5_Witness ==
    /\ Called("get_opendss_model")
    /\ pc = "done"
    /\ Len(coll) > 2 * page_size
    /\ PositionsOf(coll, arg.v) = {}
    /\ Len(sent) = 3
    /\ offset = Len(coll)
    /\ res = [kind |-> "raise", err |-> "ValueError", id |-> arg.v]

\* C25 as stated: get_opendss_model terminates for every sequence of
\* successful page responses: a scan that has started returns a record or
\* raises not-found after finitely many page requests, whatever model
\* counts and total counts the pages report.  The scan keeps nothing but
\* its offset, so a scan that asks for the same page twice can be answered
\* the same way for ever: the claim says that no scan sends the same page
\* request twice.  Violated: a page with zero models whose total count is
\* above the offset leaves the offset where it was, and the same request is
\* sent again.
C25_ScanTerminates ==
    Called("get_opendss_model") =>
        \A i, j \in 1..Len(sent) : sent[i] = sent[j] => i = j

(***************************************************************************)
(* Wire names: snake_to_camel and the override table                       *)
(***************************************************************************)

\* Strings that are split or case-converted are sequences of characters.
LowerAlpha == <<"a", "b", "c", "d", "e", "f", "g", "h", "i", "j", "k", "l", "m",
                "n", "o", "p", "q", "r", "s", "t", "u", "v", "w", "x", "y", "z">>
UpperAlpha == <<"A", "B", "C", "D", "E", "F", "G", "H", "I", "J", "K", "L", "M",
                "N", "O", "P", "Q", "R", "S", "T", "U", "V", "W", "X", "Y", "Z">>

IsCased(c) == \E i \in 1..26 : LowerAlpha[i] = c \/ UpperAlpha[i] = c
\* str.upper() / str.lower() of one character.
upper(c) == IF (\E i \in 1..26 : LowerAlpha[i] = c) THEN UpperAlpha[CHOOSE i \in 1..26 : LowerAlpha[i] = c] ELSE c
lower(c) == IF (\E i \in 1..26 : UpperAlpha[i] = c) THEN LowerAlpha[CHOOSE i \in 1..26 : UpperAlpha[i] = c] ELSE c

\* str.title(): a cased character is upper-cased when the character before
\* it is not cased (or there is none) and lower-cased otherwise.
title(x) ==
    [i \in 1..Len(x) |->
        IF ~IsCased(x[i]) THEN x[i]
        ELSE IF i > 1 /\ IsCased(x[i - 1]) THEN lower(x[i]) ELSE upper(x[i])]

\* str.split('_')
RECURSIVE split(_)
split(s) ==
    IF \A i \in 1..Len(s) : s[i] # "_"
    THEN <<s>>
    ELSE LET i == CHOOSE k \in 1..Len(s) : s[k] = "_" /\ \A j \in 1..(k - 1) : s[j] # "_"
         IN  <<SubSeq(s, 1, i - 1)>> \o split(SubSeq(s, i + 1, Len(s)))

\* ''.join(parts)
RECURSIVE join(_)
join(parts) == IF parts = <<>> THEN <<>> ELSE Head(parts) \o join(Tail(parts))

\* snake_to_camel(snake_str):
\*   components = snake_str.split('_')
\*   return components[0] + ''.join(x.title() for x in components[1:])
snake_to_camelMutant(snake_str) ==
    LET components == split(snake_str)
    IN  [i \in 1..Len(components[1]) |-> lower(components[1][i])]
            \o join([i \in 1..(Len(components) - 1) |-> title(components[i + 1])])
snake_to_camel(snake_str) ==
    LET components == split(snake_str)
    IN  components[1] \o join([i \in 1..(Len(components) - 1) |-> title(components[i + 1])])

\* HostingCapacityDataclass._snake_to_camel_overrides, as (key, value) pairs.
snake_to_camel_overrides ==
    << <<<<"l", "o", "a", "d", "_", "v", "m", "i", "n", "_", "p", "u">>,
         <<"l", "o", "a", "d", "V", "M", "i", "n", "P", "u">>>>,
       <<<<"l", "o", "a", "d", "_", "v", "m", "a", "x", "_", "p", "u">>,
         <<"l", "o", "a", "d", "V", "M", "a", "x", "P", "u">>>>,
       <<<<"g", "e", "n", "_", "v", "m", "i", "n", "_", "p", "u">>,
         <<"g", "e", "n", "V", "M", "i", "n", "P", "u">>>>,
       <<<<"g", "e", "n", "_", "v", "m", "a", "x", "_", "p", "u">>,
         <<"g", "e", "n", "V", "M", "a", "x", "P", "u">>>>,
       <<<<"c", "o", "l", "l", "a", "p", "s", "e", "_", "s", "w", "e", "r">>,
         <<"c", "o", "l", "l", "a", "p", "s", "e", "S", "W", "E", "R">>>>,
       <<<<"s", "p", "l", "i", "t", "_", "p", "h", "a", "s", "e", "_", "l", "v", "_", "k", "v">>,
         <<"s", "p", "l", "i", "t", "P", "h", "a", "s", "e", "L", "V", "K", "V">>>>,
       <<<<"n", "o", "r", "m", "_", "v", "m", "i", "n", "_", "p", "u">>,
         <<"n", "o", "r", "m", "V", "M", "i", "n", "P", "u">>>>,
       <<<<"n", "o", "r", "m", "_", "v", "m", "a", "x", "_", "p", "u">>,
         <<"n", "o", "r", "m", "V", "M", "a", "x", "P", "u">>>>,
       <<<<"e", "m", "e", "r", "g", "_", "v", "m", "i", "n", "_", "p", "u">>,
         <<"e", "m", "e", "r", "g", "V", "M", "i", "n", "P", "u">>>>,
       <<<<"e", "m", "e", "r", "g", "_", "v", "m", "a", "x", "_", "p", "u">>,
         <<"e", "m", "e", "r", "g", "V", "M", "a", "x", "P", "u">>>>,
       <<<<"c", "a", "l", "c", "u", "l", "a", "t", "e", "_", "c", "o", "2">>,
         <<"c", "a", "l", "c", "u", "l", "a", "t", "e", "C", "O", "2">>>> >>

OverrideKeys == { snake_to_camel_overrides[i][1] : i \in 1..Len(snake_to_camel_overrides) }

\* self._snake_to_camel_overrides.get(k, snake_to_camel(k))
wire_name(k) ==
    IF k \in OverrideKeys
    THEN snake_to_camel_overrides[CHOOSE i \in 1..Len(snake_to_camel_overrides) :
                                      snake_to_camel_overrides[i][1] = k][2]
    ELSE snake_to_camel(k)

\* The attribute names of the data classes, as sequences of characters.
Field ==
  [ name |-> <<"n", "a", "m", "e">>,
    is_public |-> <<"i", "s", "_", "p", "u", "b", "l", "i", "c">>,
    state |-> <<"s", "t", "a", "t", "e">>,
    created_at |-> <<"c", "r", "e", "a", "t", "e", "d", "_", "a", "t">>,
    scenario |-> <<"s", "c", "e", "n", "a", "r", "i", "o">>,
    year |-> <<"y", "e", "a", "r">>,
    feeder |-> <<"f", "e", "e", "d", "e", "r">>,
    load_time |-> <<"l", "o", "a", "d", "_", "t", "i", "m", "e">>,
    generator_config |-> <<"g", "e", "n", "e", "r", "a", "t", "o", "r", "_", "c", "o", "n", "f", "i", "g">>,
    model_name |-> <<"m", "o", "d", "e", "l", "_", "n", "a", "m", "e">>,
    completedAt |-> <<"c", "o", "m", "p", "l", "e", "t", "e", "d", "A", "t">>,
    container_runtime_type |-> <<"c", "o", "n", "t", "a", "i", "n", "e", "r", "_", "r", "u", "n", "t", "i", "m", "e", "_", "t", "y", "p", "e">>,
    status_last_updated_at |-> <<"s", "t", "a", "t", "u", "s", "_", "l", "a", "s", "t", "_", "u", "p", "d", "a", "t", "e", "d", "_", "a", "t">>,
    swer_voltage_to_line_voltage |-> <<"s", "w", "e", "r", "_", "v", "o", "l", "t", "a", "g", "e", "_", "t", "o", "_", "l", "i", "n", "e", "_", "v", "o", "l", "t", "a", "g", "e">>,
    p_factor_forecast_pv |-> <<"p", "_", "f", "a", "c", "t", "o", "r", "_", "f", "o", "r", "e", "c", "a", "s", "t", "_", "p", "v">>,
    model |-> <<"m", "o", "d", "e", "l">>,
    solve |-> <<"s", "o", "l", "v", "e">>,
    raw_results |-> <<"r", "a", "w", "_", "r", "e", "s", "u", "l", "t", "s">>,
    description |-> <<"d", "e", "s", "c", "r", "i", "p", "t", "i", "o", "n">>,
    tags |-> <<"t", "a", "g", "s">>,
    results |-> <<"r", "e", "s", "u", "l", "t", "s">>,
    styles |-> <<"s", "t", "y", "l", "e", "s">> ]

MaxNameLen == 4

RECURSIVE SeqsUpTo(_, _)
SeqsUpTo(S, n) ==
    IF n = 0 THEN {<<>>}
    ELSE LET shorter == SeqsUpTo(S, n - 1)
         IN  shorter \cup { Append(s, c) : s \in { x \in shorter : Len(x) = n - 1 }, c \in S }

\* The wire name of one attribute name is computed.
wire_name_call ==
    \E k \in SeqsUpTo({"a", "B", "_", "2"}, MaxNameLen) \cup OverrideKeys
                \cup { Field[f] : f \in DOMAIN Field } :
        /\ pc = "idle"
        /\ pc' = "done"
        /\ op' = "wire_name"
        /\ arg' = [t |-> "name", chars |-> k]
        /\ res' = [kind |-> "return", val |-> wire_name(k)]
        /\ UNCHANGED <<resp, sent, coll, offset, filters>>

NextNames == wire_name_call \/ Finish
SpecNames == InitEmpty /\ [][NextNames]_vars

(***************************************************************************)
(* Claims about wire names (checked under SpecNames)                       *)
(***************************************************************************)

\* out is the name with its underscores removed, every segment after the
\* first title-cased, and the first segment either lower-cased or kept.
\* Kept: the positions of the characters that are not underscores; Rank:
\* the place of a kept character in out; TitledChar: what a character of a
\* later segment becomes when its segment is title-cased.
CamelOf(k, out, lowerFirst) ==
    LET Kept == { i \in 1..Len(k) : k[i] # "_" }
        FirstUnderscore ==
            IF \E i \in 1..Len(k) : k[i] = "_"
            THEN CHOOSE i \in 1..Len(k) : k[i] = "_" /\ \A j \in 1..(i - 1) : k[j] # "_"
            ELSE Len(k) + 1
        Rank(i) == Cardinality({ j \in Kept : j <= i })
        TitledChar(i) ==
            IF ~IsCased(k[i]) THEN k[i]
            ELSE IF IsCased(k[i - 1]) THEN lower(k[i]) ELSE upper(k[i])
    IN  /\ Len(out) = Cardinality(Kept)
        /\ \A i \in Kept :
               out[Rank(i)] =
                   IF i < FirstUnderscore
                   THEN (IF lowerFirst THEN lower(k[i]) ELSE k[i])
                   ELSE TitledChar(i)

OverrideExamples ==
    /\ arg.chars = <<"c", "o", "l", "l", "a", "p", "s", "e", "_", "s", "w", "e", "r">> => res.val = <<"c", "o", "l", "l", "a", "p", "s", "e", "S", "W", "E", "R">>
    /\ arg.chars = <<"c", "a", "l", "c", "u", "l", "a", "t", "e", "_", "c", "o", "2">> => res.val = <<"c", "a", "l", "c", "u", "l", "a", "t", "e", "C", "O", "2">>
    /\ arg.chars = <<"s", "p", "l", "i", "t", "_", "p", "h", "a", "s", "e", "_", "l", "v", "_", "k", "v">> => res.val = <<"s", "p", "l", "i", "t", "P", "h", "a", "s", "e", "L", "V", "K", "V">>

OverrideReturned ==
    arg.chars \in OverrideKeys =>
        /\ \E i \in 1..Len(snake_to_camel_overrides) :
               snake_to_camel_overrides[i] = <<arg.chars, res.val>>
        /\ res.val # snake_to_camel(arg.chars)

\* C8 as stated: a name of the override table yields its override; any other
\* name is split on '_', its first segment lower-cased, every other segment
\* title-cased, and the segments concatenated.
C8_Original_FirstSegmentLowered ==
    Called("wire_name") =>
        /\ OverrideExamples
        /\ OverrideReturned
        /\ arg.chars \notin OverrideKeys => CamelOf(arg.chars, res.val, TRUE)

\* C8 amended: a name of the override table yields its override (the generic
\* result is not used); any other name is split on '_', its first segment is
\* kept exactly as written (not lower-cased), every other segment is
\* title-cased, and the segments are concatenated.
C8_WireNameConversion ==
    Called("wire_name") =>
        /\ OverrideExamples
        /\ OverrideReturned
        /\ arg.chars \notin OverrideKeys => CamelOf(arg.chars, res.val, FALSE)

C8_Witness ==
    /\ Called("wire_name")
    /\ arg.chars = <<"B", "_", "a", "B">>
    /\ res.val = <<"B", "A", "b">>

(***************************************************************************)
(* Values and enumerations                                                 *)
(***************************************************************************)

\* Keys written literally in the code and the tests, dict keys and dynamic
\* attributes, as sequences of characters.
Key ==
  [ generationSpec |-> <<"g", "e", "n", "e", "r", "a", "t", "i", "o", "n", "S", "p", "e", "c">>,
    modelOptions |-> <<"m", "o", "d", "e", "l", "O", "p", "t", "i", "o", "n", "s">>,
    modulesConfiguration |-> <<"m", "o", "d", "u", "l", "e", "s", "C", "o", "n", "f", "i", "g", "u", "r", "a", "t", "i", "o", "n">>,
    common |-> <<"c", "o", "m", "m", "o", "n">>,
    generator |-> <<"g", "e", "n", "e", "r", "a", "t", "o", "r">>,
    generatorConfig |-> <<"g", "e", "n", "e", "r", "a", "t", "o", "r", "C", "o", "n", "f", "i", "g">>,
    timePeriod |-> <<"t", "i", "m", "e", "P", "e", "r", "i", "o", "d">>,
    fixedTime |-> <<"f", "i", "x", "e", "d", "T", "i", "m", "e">>,
    loadTime |-> <<"l", "o", "a", "d", "T", "i", "m", "e">>,
    feeder |-> <<"f", "e", "e", "d", "e", "r">>,
    scenario |-> <<"s", "c", "e", "n", "a", "r", "i", "o">>,
    year |-> <<"y", "e", "a", "r">>,
    meter1 |-> <<"m", "e", "t", "e", "r", "1">>,
    private_cache |-> <<"_", "c", "a", "c", "h", "e">>,
    extra_attr |-> <<"e", "x", "t", "r", "a", "_", "a", "t", "t", "r">>,
    feeders |-> <<"f", "e", "e", "d", "e", "r", "s">>,
    geographicalRegions |-> <<"g", "e", "o", "g", "r", "a", "p", "h", "i", "c", "a", "l", "R", "e", "g", "i", "o", "n", "s">>,
    model |-> <<"m", "o", "d", "e", "l">>,
    transformerTapSettings |-> <<"t", "r", "a", "n", "s", "f", "o", "r", "m", "e", "r", "T", "a", "p", "S", "e", "t", "t", "i", "n", "g", "s">> ]

\* Every member of the enumerations with the value its class body assigns
\* (a member line ending in a comma assigns a one-element tuple).
EnumTable ==
    { [cls |-> "SwitchClass", member |-> "BREAKER",
       value |-> [t |-> "tuple", items |-> <<[t |-> "str", s |-> "BREAKER"]>>]],
      [cls |-> "SwitchClass", member |-> "DISCONNECTOR",
       value |-> [t |-> "tuple", items |-> <<[t |-> "str", s |-> "DISCONNECTOR"]>>]],
      [cls |-> "SwitchClass", member |-> "FUSE",
       value |-> [t |-> "tuple", items |-> <<[t |-> "str", s |-> "FUSE"]>>]],
      [cls |-> "SwitchClass", member |-> "JUMPER",
       value |-> [t |-> "tuple", items |-> <<[t |-> "str", s |-> "JUMPER"]>>]],
      [cls |-> "SwitchClass", member |-> "LOAD_BREAK_SWITCH",
       value |-> [t |-> "tuple", items |-> <<[t |-> "str", s |-> "LOAD_BREAK_SWITCH"]>>]],
      [cls |-> "SwitchClass", member |-> "RECLOSER",
       value |-> [t |-> "str", s |-> "RECLOSER"]],
      [cls |-> "SolveMode", member |-> "YEARLY",
       value |-> [t |-> "str", s |-> "YEARLY"]],
      [cls |-> "SolveMode", member |-> "DAILY",
       value |-> [t |-> "str", s |-> "DAILY"]],
      [cls |-> "LoadPlacement", member |-> "PER_ENERGY_CONSUMER",
       value |-> [t |-> "str", s |-> "PER_ENERGY_CONSUMER"]],
      [cls |-> "LoadPlacement", member |-> "PER_USAGE_POINT",
       value |-> [t |-> "str", s |-> "PER_USAGE_POINT"]],
      [cls |-> "FeederScenarioAllocationStrategy", member |-> "RANDOM",
       value |-> [t |-> "str", s |-> "RANDOM"]],
      [cls |-> "FeederScenarioAllocationStrategy", member |-> "ADDITIVE",
       value |-> [t |-> "str", s |-> "ADDITIVE"]],
      [cls |-> "WriterType", member |-> "POSTGRES",
       value |-> [t |-> "tuple", items |-> <<[t |-> "str", s |-> "POSTGRES"]>>]],
      [cls |-> "WriterType", member |-> "PARQUET",
       value |-> [t |-> "str", s |-> "PARQUET"]],
      [cls |-> "InterventionClass", member |-> "TARIFF_REFORM",
       value |-> [t |-> "tuple", items |-> <<[t |-> "str", s |-> "TARIFF_REFORM"]>>]],
      [cls |-> "InterventionClass", member |-> "CONTROLLED_LOAD_HOT_WATER",
       value |-> [t |-> "tuple", items |-> <<[t |-> "str", s |-> "CONTROLLED_LOAD_HOT_WATER"]>>]],
      [cls |-> "InterventionClass", member |-> "COMMUNITY_BESS",
       value |-> [t |-> "tuple", items |-> <<[t |-> "str", s |-> "COMMUNITY_BESS"]>>]],
      [cls |-> "InterventionClass", member |-> "DISTRIBUTION_TX_OLTC",
       value |-> [t |-> "tuple", items |-> <<[t |-> "str", s |-> "DISTRIBUTION_TX_OLTC"]>>]],
      [cls |-> "InterventionClass", member |-> "LV_STATCOMS",
       value |-> [t |-> "tuple", items |-> <<[t |-> "str", s |-> "LV_STATCOMS"]>>]],
      [cls |-> "InterventionClass", member |-> "DVMS",
       value |-> [t |-> "tuple", items |-> <<[t |-> "str", s |-> "DVMS"]>>]],
      [cls |-> "InterventionClass", member |-> "PHASE_REBALANCING",
       value |-> [t |-> "tuple", items |-> <<[t |-> "str", s |-> "PHASE_REBALANCING"]>>]],
      [cls |-> "InterventionClass", member |-> "DISTRIBUTION_TAP_OPTIMIZATION",
       value |-> [t |-> "tuple", items |-> <<[t |-> "str", s |-> "DISTRIBUTION_TAP_OPTIMIZATION"]>>]],
      [cls |-> "InterventionClass", member |-> "UNKNOWN",
       value |-> [t |-> "str", s |-> "UNKNOWN"]],
      [cls |-> "CandidateGenerationType", member |-> "CRITERIA",
       value |-> [t |-> "tuple", items |-> <<[t |-> "str", s |-> "CRITERIA"]>>]],
      [cls |-> "CandidateGenerationType", member |-> "TAP_OPTIMIZATION",
       value |-> [t |-> "str", s |-> "TAP_OPTIMIZATION"]],
      [cls |-> "Order", member |-> "ASC",
       value |-> [t |-> "str", s |-> "ASC"]],
      [cls |-> "Order", member |-> "DESC",
       value |-> [t |-> "str", s |-> "DESC"]],
      [cls |-> "OpenDssModelState", member |-> "COULD_NOT_START",
       value |-> [t |-> "str", s |-> "COULD_NOT_START"]],
      [cls |-> "OpenDssModelState", member |-> "CREATION",
       value |-> [t |-> "str", s |-> "CREATION"]],
      [cls |-> "OpenDssModelState", member |-> "COMPLETED",
       value |-> [t |-> "str", s |-> "COMPLETED"]],
      [cls |-> "OpenDssModelState", member |-> "FAILED",
       value |-> [t |-> "str", s |-> "FAILED"]],
      [cls |-> "IngestorRunState", member |-> "INITIALIZED",
       value |-> [t |-> "str", s |-> "INITIALIZED"]],
      [cls |-> "IngestorRunState", member |-> "QUEUED",
       value |-> [t |-> "str", s |-> "QUEUED"]],
      [cls |-> "IngestorRunState", member |-> "STARTED",
       value |-> [t |-> "str", s |-> "STARTED"]],
      [cls |-> "IngestorRunState", member |-> "RUNNING",
       value |-> [t |-> "str", s |-> "RUNNING"]],
      [cls |-> "IngestorRunState", member |-> "SUCCESS",
       value |-> [t |-> "str", s |-> "SUCCESS"]],
      [cls |-> "IngestorRunState", member |-> "FAILURE",
       value |-> [t |-> "str", s |-> "FAILURE"]],
      [cls |-> "IngestorRunState", member |-> "FAILED_TO_START",
       value |-> [t |-> "str", s |-> "FAILED_TO_START"]],
      [cls |-> "IngestorRuntimeKind", member |-> "AZURE_CONTAINER_APP_JOB",
       value |-> [t |-> "str", s |-> "AZURE_CONTAINER_APP_JOB"]],
      [cls |-> "IngestorRuntimeKind", member |-> "DOCKER",
       value |-> [t |-> "str", s |-> "DOCKER"]],
      [cls |-> "IngestorRuntimeKind", member |-> "ECS",
       value |-> [t |-> "str", s |-> "ECS"]],
      [cls |-> "IngestorRuntimeKind", member |-> "KUBERNETES",
       value |-> [t |-> "str", s |-> "KUBERNETES"]],
      [cls |-> "IngestorRuntimeKind", member |-> "TEMPORAL_KUBERNETES",
       value |-> [t |-> "str", s |-> "TEMPORAL_KUBERNETES"]] }

Enum(c, m) == [t |-> "enum", cls |-> c, member |-> m]
EnumValues == { Enum(e.cls, e.member) : e \in EnumTable }
\* _value.value
enum_value(v) == (CHOOSE e \in EnumTable : e.cls = v.cls /\ e.member = v.member).value

PyNone == [t |-> "none"]
PyStr(x) == [t |-> "str", s |-> x]
PyInt(x) == [t |-> "int", n |-> x]
PyFloat(x) == [t |-> "float", f |-> x]
PyBool(x) == [t |-> "bool", b |-> x]
PyList(x) == [t |-> "list", items |-> x]
PyDateTime(y, mo, dd, h, mi, sec, us, tz) ==
    [t |-> "datetime", year |-> y, month |-> mo, day |-> dd, hour |-> h, minute |-> mi,
     second |-> sec, microsecond |-> us, tzinfo |-> tz]
\* An instance of a HostingCapacityDataclass subclass: its class and its
\* __dict__ as (name, value) items in insertion order.
Hcd(c, attrs) == [t |-> "hcd", cls |-> c, attrs |-> attrs]
Attr(k, v) == [k |-> k, v |-> v]
\* Values of types the mapper does not know.
PyBytes(x) == [t |-> "bytes", s |-> x]
\* An instance of a class that is no HostingCapacityDataclass (TimePeriod,
\* FixedTime and GeneratorConfig of work_package.py are plain classes).
PyObject(c) == [t |-> "object", cls |-> c]

\* tzinfo: None for a naive datetime, otherwise a fixed UTC offset in minutes.
Naive == [aware |-> FALSE, offset |-> 0]
Tz(minutes) == [aware |-> TRUE, offset |-> minutes]

\* datetime.isoformat(): YYYY-MM-DDTHH:MM:SS[.ffffff][+HH:MM]
RECURSIVE Pad(_, _)
Pad(n, width) == IF width = 0 THEN "" ELSE Pad(n \div 10, width - 1) \o ToString(n % 10)
isoformat(v) ==
    Pad(v.year, 4) \o "-" \o Pad(v.month, 2) \o "-" \o Pad(v.day, 2) \o "T"
        \o Pad(v.hour, 2) \o ":" \o Pad(v.minute, 2) \o ":" \o Pad(v.second, 2)
        \o (IF v.microsecond = 0 THEN "" ELSE "." \o Pad(v.microsecond, 6))
        \o (IF ~v.tzinfo.aware THEN ""
            ELSE LET a == IF v.tzinfo.offset < 0 THEN 0 - v.tzinfo.offset ELSE v.tzinfo.offset
                 IN  (IF v.tzinfo.offset < 0 THEN "-" ELSE "+")
                         \o Pad(a \div 60, 2) \o ":" \o Pad(a % 60, 2))

(***************************************************************************)
(* The wire mapper: HostingCapacityDataclass.to_json, OpenDssConfig.to_json *)
(***************************************************************************)

TypeError == [t |-> "raise", err |-> "TypeError"]
AttributeError == [t |-> "raise", err |-> "AttributeError"]
IsRaise(j) == j.t = "raise"

\* "else: raise TypeError(f'Unsupported value type: {_value}')"
unsupported_valueMutant(v) == PyStr("<unsupported>")
unsupported_value(v) == TypeError

\* _public_attrs: the items of __dict__ whose name does not start with "_".
public_attrs(obj) == SelectSeq(obj.attrs, LAMBDA a : Head(a.k) # "_")

\* A dict built from (key, value) items: a later item replaces an earlier
\* one with the same key.
MapOf(keys, vals) ==
    [t |-> "map",
     m |-> [key \in { keys[i] : i \in 1..Len(keys) } |->
               vals[CHOOSE i \in 1..Len(keys) :
                       keys[i] = key /\ \A j \in (i + 1)..Len(keys) : keys[j] # key]]]

RECURSIVE process_value(_)
RECURSIVE to_json(_)

\* The comprehensions of to_json and _process_value: the values are mapped
\* in order, and the first one that raises ends the comprehension.
RECURSIVE process_all(_)
process_all(values) ==
    IF values = <<>> THEN [t |-> "seq", items |-> <<>>]
    ELSE LET first == process_value(Head(values))
         IN  IF IsRaise(first) THEN first
             ELSE LET rest == process_all(Tail(values))
                  IN  IF IsRaise(rest) THEN rest
                      ELSE [t |-> "seq", items |-> <<first>> \o rest.items]

\* HostingCapacityDataclass.to_json
HostingCapacityDataclass_to_json(obj) ==
    LET pa == public_attrs(obj)
        vals == process_all([i \in 1..Len(pa) |-> pa[i].v])
    IN  IF IsRaise(vals) THEN vals
        ELSE MapOf([i \in 1..Len(pa) |-> wire_name(pa[i].k)], vals.items)

IsInstance(v, c) == v.t = "object" /\ v.cls = c

\* OpenDssConfig.to_json
OpenDssConfig_to_json(obj) ==
    LET json == HostingCapacityDataclass_to_json(obj)
    IN  IF IsRaise(json) THEN json
        ELSE
        LET m == json.m
            load_time == obj.attrs[CHOOSE i \in 1..Len(obj.attrs) : obj.attrs[i].k = Field.load_time].v
            moved == IsInstance(load_time, "TimePeriod") \/ IsInstance(load_time, "FixedTime")
            common ==
                IF IsInstance(load_time, "TimePeriod")
                THEN MapOf(<<Key.timePeriod>>, <<m[Key.loadTime]>>)
                ELSE IF IsInstance(load_time, "FixedTime")
                     THEN MapOf(<<Key.fixedTime>>, <<m[Key.loadTime]>>)
                     ELSE [t |-> "map", m |-> <<>>]
            generationSpec ==
                MapOf(<<Key.modelOptions, Key.modulesConfiguration>>,
                      << MapOf(<<Key.feeder, Key.scenario, Key.year>>,
                               <<m[Key.feeder], m[Key.scenario], m[Key.year]>>),
                         MapOf(<<Key.common, Key.generator>>, <<common, m[Key.generatorConfig]>>) >>)
            popped == {Key.feeder, Key.scenario, Key.year, Key.generatorConfig}
                          \cup (IF moved THEN {Key.loadTime} ELSE {})
        IN  [t |-> "map",
             m |-> [key \in (DOMAIN m \ popped) \cup {Key.generationSpec} |->
                       IF key = Key.generationSpec THEN generationSpec ELSE m[key]]]

to_json(obj) ==
    IF obj.cls = "OpenDssConfig"
    THEN OpenDssConfig_to_json(obj)
    ELSE HostingCapacityDataclass_to_json(obj)

\* obj.to_json(): the method of a HostingCapacityDataclass; any other object
\* has no such attribute.
call_to_json(obj) == IF obj.t = "hcd" THEN to_json(obj) ELSE AttributeError

\* _process_value of HostingCapacityDataclass.to_json
process_value(v) ==
    CASE v.t = "hcd" -> to_json(v)
      [] v.t = "enum" -> enum_value(v)
      [] v.t = "datetime" -> PyStr(isoformat(v))
      [] v.t = "list" ->
            LET items == process_all(v.items)
            IN  IF IsRaise(items) THEN items ELSE PyList(items.items)
      [] v.t = "dict" ->
            LET vals == process_all([i \in 1..Len(v.entries) |-> v.entries[i].v])
            IN  IF IsRaise(vals) THEN vals
                ELSE MapOf([i \in 1..Len(v.entries) |-> v.entries[i].k], vals.items)
      [] v.t \in {"str", "int", "float", "bool"} -> v
      [] v.t = "none" -> PyNone
      [] OTHER -> unsupported_value(v)

(***************************************************************************)
(* Config Model classes and the instances mapped                           *)
(***************************************************************************)

ClassFields(c) ==
    CASE c = "GetOpenDssModelsFilterInput" -> <<Field.name, Field.is_public, Field.state>>
      [] c = "GetOpenDssModelsSortCriteriaInput" -> <<Field.name, Field.created_at, Field.state, Field.is_public>>
      [] c = "OpenDssConfig" -> <<Field.scenario, Field.year, Field.feeder, Field.load_time,
                                  Field.generator_config, Field.model_name, Field.is_public>>

\* A value of the declared type of each field.
TypedValue(c, f) ==
    CASE c = "GetOpenDssModelsFilterInput" /\ f = Field.name -> PyStr("TEST OPENDSS MODEL 1")
      [] c = "GetOpenDssModelsFilterInput" /\ f = Field.is_public -> PyBool(TRUE)
      [] c = "GetOpenDssModelsFilterInput" /\ f = Field.state ->
            PyList(<<Enum("OpenDssModelState", "COMPLETED"), Enum("OpenDssModelState", "FAILED")>>)
      [] c = "GetOpenDssModelsSortCriteriaInput" -> Enum("Order", "ASC")
      [] c = "OpenDssConfig" /\ f \in {Field.scenario, Field.feeder, Field.model_name} -> PyStr("scenario1")
      [] c = "OpenDssConfig" /\ f = Field.year -> PyInt(2024)
      [] c = "OpenDssConfig" /\ f = Field.load_time -> PyObject("TimePeriod")
      [] c = "OpenDssConfig" /\ f = Field.generator_config -> PyObject("GeneratorConfig")
      [] c = "OpenDssConfig" /\ f = Field.is_public -> PyBool(TRUE)

\* Nesting depth of the values mapped.
MaxDepth == 2

\* The values mapped: values without parts, of the types the mapper knows
\* and of others, and values put inside a list, a dict, or a nested Config
\* Model instance.
RECURSIVE ValuesAt(_)
ValuesAt(depth) ==
    IF depth = 0
    THEN { PyNone, PyStr("x"), PyInt(1), PyFloat("0.5"), PyBool(TRUE),
           PyDateTime(2025, 7, 12, 0, 0, 20, 0, Naive),
           Enum("Order", "DESC"), Enum("SwitchClass", "LOAD_BREAK_SWITCH"),
           PyList(<<PyStr("a"), PyStr("b")>>),
           PyBytes("x"), [t |-> "tuple", items |-> <<PyInt(1)>>], PyObject("TimePeriod"), PyObject("GeneratorConfig") }
    ELSE LET inner == ValuesAt(depth - 1)
         IN  inner
             \cup { PyList(<<x>>) : x \in inner }
             \cup { [t |-> "dict", entries |-> <<Attr(Key.meter1, x)>>] : x \in inner }
             \cup { Hcd("GetOpenDssModelsSortCriteriaInput",
                        <<Attr(Field.name, x), Attr(Field.created_at, PyNone),
                          Attr(Field.state, Enum("Order", "ASC")), Attr(Field.is_public, PyNone)>>) :
                      x \in inner }

\* An instance of class c whose i-th field holds x; the other fields are
\* unset (None) or hold a value of their declared type; the instance may
\* carry a private or a public attribute set after construction.
MakeInstance(c, i, x, fill, extra) ==
    LET fields == ClassFields(c)
        declared == [j \in 1..Len(fields) |->
                        Attr(fields[j],
                             IF j = i THEN x
                             ELSE IF fill = "typed" THEN TypedValue(c, fields[j]) ELSE PyNone)]
    IN  Hcd(c, declared \o (CASE extra = "private" -> <<Attr(Key.private_cache, PyBytes("memo"))>>
                              [] extra = "public" -> <<Attr(Key.extra_attr, PyInt(1))>>
                              [] OTHER -> <<>>))

\* to_json() of one Config Model instance is called.
to_json_call ==
    /\ pc = "idle"
    /\ \E c \in {"GetOpenDssModelsFilterInput", "GetOpenDssModelsSortCriteriaInput", "OpenDssConfig"},
          fill \in {"unset", "typed"}, extra \in {"none", "private", "public"},
          x \in ValuesAt(MaxDepth) \cup EnumValues \cup {PyObject("FixedTime")} :
         \E i \in 1..Len(ClassFields(c)) :
           LET obj == MakeInstance(c, i, x, fill, extra)
               json == to_json(obj)
           IN  /\ pc' = "done"
               /\ op' = "to_json"
               /\ arg' = obj
               /\ res' = IF IsRaise(json)
                         THEN [kind |-> "raise", err |-> json.err]
                         ELSE [kind |-> "return", val |-> json]
               /\ UNCHANGED <<resp, sent, coll, offset, filters>>

\* An instance of a Config Model class that is a plain dataclass and no
\* HostingCapacityDataclass: its class and its __dict__.
Dataclass(c, attrs) == [t |-> "object", cls |-> c, attrs |-> attrs]

\* The plain Config Model instances mapped: a GeneratorConfig with no field
\* set (work_package.py) and a Study without results (study.py).
Dataclasses ==
    { Dataclass("GeneratorConfig",
                <<Attr(Field.model, PyNone), Attr(Field.solve, PyNone), Attr(Field.raw_results, PyNone)>>),
      Dataclass("Study",
                <<Attr(Field.name, PyStr("study")), Attr(Field.description, PyStr("x")),
                  Attr(Field.tags, PyList(<<PyStr("a"), PyStr("b")>>)),
                  Attr(Field.results, PyList(<<>>)), Attr(Field.styles, PyList(<<>>))>>) }

\* obj.to_json() is evaluated on one of them.
dataclass_to_json_call ==
    /\ pc = "idle"
    /\ \E obj \in Dataclasses :
         LET json == call_to_json(obj)
         IN  /\ pc' = "done"
             /\ op' = "dataclass.to_json"
             /\ arg' = obj
             /\ res' = IF IsRaise(json)
                       THEN [kind |-> "raise", err |-> json.err]
                       ELSE [kind |-> "return", val |-> json]
             /\ UNCHANGED <<resp, sent, coll, offset, filters>>

NextMapper == to_json_call \/ dataclass_to_json_call \/ Finish
SpecMapper == InitEmpty /\ [][NextMapper]_vars

(***************************************************************************)
(* Claims about the wire mapper                                            *)
(***************************************************************************)

\* The positions of the attributes of an instance whose name does not start
\* with an underscore.
PublicPositions(obj) == { i \in 1..Len(obj.attrs) : obj.attrs[i].k[1] # "_" }

\* Every value the mapper visits in v (public attributes of Config Model
\* values, list items, dict values) is of a type it knows.
RECURSIVE AllSupported(_)
AllSupported(v) ==
    CASE v.t = "hcd" -> \A i \in PublicPositions(v) : AllSupported(v.attrs[i].v)
      [] v.t = "list" -> \A i \in 1..Len(v.items) : AllSupported(v.items[i])
      [] v.t = "dict" -> \A i \in 1..Len(v.entries) : AllSupported(v.entries[i].v)
      [] v.t \in {"enum", "datetime", "str", "int", "float", "bool", "none"} -> TRUE
      [] OTHER -> FALSE

\* j is the map of v: one key per public attribute, named by its wire name,
\* None kept as an explicit null, nested values mapped the same way.
RECURSIVE WellMapped(_, _)
WellMapped(v, j) ==
    CASE v.t = "hcd" ->
            /\ j.t = "map"
            /\ DOMAIN j.m = { wire_name(v.attrs[i].k) : i \in PublicPositions(v) }
            /\ Cardinality(DOMAIN j.m) = Cardinality(PublicPositions(v))
            /\ \A i \in PublicPositions(v) :
                  /\ v.attrs[i].v = PyNone => j.m[wire_name(v.attrs[i].k)] = PyNone
                  /\ WellMapped(v.attrs[i].v, j.m[wire_name(v.attrs[i].k)])
      [] v.t = "list" ->
            /\ j.t = "list"
            /\ Len(j.items) = Len(v.items)
            /\ \A i \in 1..Len(v.items) : WellMapped(v.items[i], j.items[i])
      [] v.t = "dict" ->
            /\ j.t = "map"
            /\ DOMAIN j.m = { v.entries[i].k : i \in 1..Len(v.entries) }
            /\ \A i \in 1..Len(v.entries) : WellMapped(v.entries[i].v, j.m[v.entries[i].k])
      [] OTHER -> TRUE

\* An instance of C6 as stated: for every Config Model instance of a class
\* other than OpenDssConfig (whose own to_json moves some keys under
\* generationSpec) to_json yields a map whose keys are exactly the wire names
\* of its public fields, recursively, with None as an explicit null and no
\* two fields on one key.  Violated: GeneratorConfig and the other Config
\* Model classes of work_package.py, ingestor.py, study.py and
\* feeder_load_analysis_input.py are plain dataclasses without to_json, so
\* the call raises AttributeError (see C13).
C6_EveryClassMapped ==
    /\ (Called("to_json") /\ arg.cls # "OpenDssConfig" /\ AllSupported(arg)) =>
           (res.kind = "return" /\ WellMapped(arg, res.val))
    /\ Called("dataclass.to_json") =>
           (res.kind = "return" /\ WellMapped(Hcd(arg.cls, arg.attrs), res.val))

\* C7 as stated: every enum member held by a mapped instance is emitted as
\* a string, and two different members of one enumeration are emitted as
\* different tokens.  Violated: members declared with a trailing comma
\* (SwitchClass.LOAD_BREAK_SWITCH) are emitted as a one-element tuple.
C7_EnumEmittedAsString ==
    (Called("to_json") /\ res.kind = "return" /\ arg.cls # "OpenDssConfig") =>
        \A i \in PublicPositions(arg) :
            arg.attrs[i].v.t = "enum" =>
                /\ res.val.m[wire_name(arg.attrs[i].k)].t = "str"
                /\ \A e \in EnumValues :
                      (e.cls = arg.attrs[i].v.cls /\ e.member # arg.attrs[i].v.member)
                          => enum_value(e) # res.val.m[wire_name(arg.attrs[i].k)]

\* C9: to_json raises TypeError exactly when a value the mapper visits, at
\* any depth (attribute, list item, dict value), is of a type it does not
\* know; otherwise it returns.
C9_UnsupportedRaises ==
    Called("to_json") =>
        /\ ~AllSupported(arg) => res = [kind |-> "raise", err |-> "TypeError"]
        /\ AllSupported(arg) => res.kind = "return"

\* An unsupported value two levels down (inside a list inside a dict, or
\* the like) has made to_json raise.
C9_Witness ==
    /\ Called("to_json")
    /\ res = [kind |-> "raise", err |-> "TypeError"]
    /\ \E i \in PublicPositions(arg) :
          /\ arg.attrs[i].v.t \in {"list", "dict"}
          /\ LET inner == IF arg.attrs[i].v.t = "list" THEN arg.attrs[i].v.items[1]
                          ELSE arg.attrs[i].v.entries[1].v
             IN  /\ inner.t \in {"list", "dict"}
                 /\ LET leaf == IF inner.t = "list" THEN inner.items[1] ELSE inner.entries[1].v
                    IN  leaf.t \in {"bytes", "tuple", "object"}

\* C24 as stated: OpenDssConfig.to_json, for an instance whose load_time is
\* a TimePeriod or a FixedTime, returns a map whose top level has only
\* modelName, isPublic and generationSpec (plus attributes set after
\* construction), with feeder, scenario and year under
\* generationSpec.modelOptions, the generator config under
\* generationSpec.modulesConfiguration.generator, and the load time under
\* generationSpec.modulesConfiguration.common as the one key timePeriod or
\* fixedTime.  Violated: TimePeriod and FixedTime are plain classes the
\* mapper does not know, so to_json raises TypeError for every such
\* instance before any key is moved.
C24_OpenDssConfigNesting ==
    LET ValueOf(f) == arg.attrs[CHOOSE i \in 1..Len(arg.attrs) : arg.attrs[i].k = f].v
        load_time == ValueOf(Field.load_time)
    IN  (/\ Called("to_json")
         /\ arg.cls = "OpenDssConfig"
         /\ IsInstance(load_time, "TimePeriod") \/ IsInstance(load_time, "FixedTime")) =>
            /\ res.kind = "return"
            /\ LET top == res.val.m
                   spec == top[Key.generationSpec].m
                   modules == spec[Key.modulesConfiguration].m
               IN  /\ { wire_name(Field.model_name), wire_name(Field.is_public), Key.generationSpec }
                          \subseteq DOMAIN top
                   /\ DOMAIN top \cap {Key.feeder, Key.scenario, Key.year, Key.loadTime,
                                       Key.generatorConfig} = {}
                   /\ DOMAIN spec[Key.modelOptions].m = {Key.feeder, Key.scenario, Key.year}
                   /\ DOMAIN modules = {Key.common, Key.generator}
                   /\ DOMAIN modules[Key.common].m =
                          (IF IsInstance(load_time, "TimePeriod") THEN {Key.timePeriod}
                           ELSE {Key.fixedTime})

(***************************************************************************)
(* Field selection: HostingCapacityDataclass.build_gql_query_object_model  *)
(***************************************************************************)

\* A type hint is a class (a Config Model class, i.e. a subclass of
\* HostingCapacityDataclass, with its own annotations in declaration order;
\* or another class) or a subscripted generic with its __args__:
\* typing.Optional[A] (args A, NoneType), typing.Union[A, B], typing.List[A],
\* the builtin list[A], typing.Dict[K, V].

RECURSIVE build_gql_query_object_model(_)

\* _process_value of build_gql_query_object_model: the selection of the
\* first type argument when that is a Config Model class, looked for again
\* inside a first type argument that is a typing.List; None otherwise.
RECURSIVE gql_process_valueMutant(_)
gql_process_valueMutant(_value) ==
    IF _value.t # "generic" THEN PyNone
    ELSE LET clazz == _value.args[1]
         IN  IF clazz.t = "class"
             THEN IF clazz.hcd THEN PyStr(build_gql_query_object_model(clazz)) ELSE PyNone
             ELSE gql_process_valueMutant(clazz)
RECURSIVE gql_process_value(_)
gql_process_value(_value) ==
    IF _value.t # "generic" THEN PyNone  \* no __args__: AttributeError
    ELSE LET clazz == _value.args[1]
         IN  IF clazz.t = "class"
             THEN IF clazz.hcd THEN PyStr(build_gql_query_object_model(clazz)) ELSE PyNone
             ELSE \* issubclass raises TypeError: clazz is no class
                  IF clazz.origin = "List" THEN gql_process_value(clazz) ELSE PyNone

\* cls.build_gql_query_object_model(): the string, as its characters.
build_gql_query_object_model(cls) ==
    LET public == SelectSeq(cls.annotations, LAMBDA a : Head(a.k) # "_")
        get_str(a) ==
            CHOOSE str \in { IF _pv = PyNone THEN wire_name(a.k)
                             ELSE wire_name(a.k) \o <<" ", "{", " ">> \o _pv.s \o <<" ", "}">> :
                               _pv \in {gql_process_value(a.v)} } : TRUE
        joined[i \in 0..Len(public)] ==
            IF i = 0 THEN <<>>
            ELSE IF i = 1 THEN get_str(public[1])
            ELSE joined[i - 1] \o <<" ">> \o get_str(public[i])
    IN  joined[Len(public)]

\* Wrappers around a type hint in the classes declared, at most.
MaxWrapping == 3

\* The classes whose selection is built: the three Config Model classes of
\* opendss.py, and classes declaring, between two plain fields and a private
\* one, a field hinted with a class or with up to MaxWrapping generic
\* wrappers around a class.
DeclaredClasses ==
    LET Class(name, hcd, annotations) ==
            [t |-> "class", name |-> name, hcd |-> hcd, annotations |-> annotations]
        Generic(origin, args) == [t |-> "generic", origin |-> origin, args |-> args]
        Other(name) == Class(name, FALSE, <<>>)
        Optional(a) == Generic("Optional", <<a, Other("NoneType")>>)
        GetOpenDssModelsSortCriteriaInput ==
            Class("GetOpenDssModelsSortCriteriaInput", TRUE,
                  [i \in 1..4 |-> Attr(ClassFields("GetOpenDssModelsSortCriteriaInput")[i],
                                       Optional(Other("Order")))])
        GetOpenDssModelsFilterInput ==
            Class("GetOpenDssModelsFilterInput", TRUE,
                  << Attr(Field.name, Optional(Other("str"))),
                     Attr(Field.is_public, Optional(Other("int"))),
                     Attr(Field.state, Optional(Generic("List", <<Other("OpenDssModelState")>>))) >>)
        OpenDssConfig ==
            Class("OpenDssConfig", TRUE,
                  << Attr(Field.scenario, Other("str")), Attr(Field.year, Other("int")),
                     Attr(Field.feeder, Other("str")),
                     Attr(Field.load_time, Generic("Union", <<Other("TimePeriod"), Other("FixedTime")>>)),
                     Attr(Field.generator_config, Optional(Other("GeneratorConfig"))),
                     Attr(Field.model_name, Optional(Other("str"))),
                     Attr(Field.is_public, Optional(Other("bool"))) >>)
        Nested ==
            Class("Nested", TRUE,
                  << Attr(Field.name, Other("str")), Attr(Key.private_cache, Other("int")),
                     Attr(Field.created_at, Optional(Other("datetime"))),
                     Attr(Field.state, Optional(GetOpenDssModelsSortCriteriaInput)) >>)
        Wrapped[n \in 0..MaxWrapping] ==
            IF n = 0 THEN { Nested, GetOpenDssModelsSortCriteriaInput, Other("str"), Other("TimePeriod") }
            ELSE Wrapped[n - 1]
                 \cup { Generic(origin, <<a>>) : origin \in {"List", "list"}, a \in Wrapped[n - 1] }
                 \cup { Generic("Dict", args) :
                          args \in UNION { {<<Other("str"), a>>, <<a, Other("str")>>} : a \in Wrapped[n - 1] } }
                 \cup { Generic(u[1], u[2]) :
                          u \in UNION { { <<"Optional", <<a, Other("NoneType")>>>>,
                                          <<"Union", <<a, Other("str")>>>>,
                                          <<"Union", <<Other("int"), a>>>> } :
                                        a \in { w \in Wrapped[n - 1] :
                                                  w.t = "class" \/ w.origin \in {"List", "list", "Dict"} } } }
    IN  { GetOpenDssModelsSortCriteriaInput, GetOpenDssModelsFilterInput, OpenDssConfig, Nested }
        \cup { Class("Declared", TRUE,
                     << Attr(Field.model_name, Other("str")), Attr(Key.extra_attr, hint),
                        Attr(Key.private_cache, Other("int")), Attr(Field.is_public, Optional(Other("bool"))) >>) :
                 hint \in Wrapped[MaxWrapping] }

\* build_gql_query_object_model() of one class is called.
build_gql_query_object_model_call ==
    /\ pc = "idle"
    /\ \E cls \in DeclaredClasses :
          /\ pc' = "done"
          /\ op' = "build_gql_query_object_model"
          /\ arg' = cls
          /\ res' = [kind |-> "return", val |-> build_gql_query_object_model(cls)]
          /\ UNCHANGED <<resp, sent, coll, offset, filters>>

NextGql == build_gql_query_object_model_call \/ Finish
SpecGql == InitEmpty /\ [][NextGql]_vars

(***************************************************************************)
(* Claims about field selection (checked under SpecGql)                    *)
(***************************************************************************)

\* C22 as stated: build_gql_query_object_model emits the public fields of
\* the class in declaration order as space-joined wire names, and for every
\* field whose hint is a Config Model class X, declared directly as X, as
\* Optional[X] or as List[X], it emits "fieldName { <selection of X> }"
\* instead of the bare name.  (Stated for the classes all of whose public
\* fields are hinted with a class, Optional[class] or List[class].)
\* Violated: a field declared directly as X is emitted as a bare name.
C22_SelectionOfConfigModelFields ==
    LET public == SelectSeq(arg.annotations, LAMBDA a : Head(a.k) # "_")
        OneLevel(hint) ==
            \/ hint.t = "class"
            \/ hint.origin \in {"Optional", "List"} /\ hint.args[1].t = "class"
        X(hint) == IF hint.t = "class" THEN hint ELSE hint.args[1]
        expected(a) ==
            IF X(a.v).hcd
            THEN wire_name(a.k) \o <<" ", "{", " ">> \o build_gql_query_object_model(X(a.v)) \o <<" ", "}">>
            ELSE wire_name(a.k)
        joined[i \in 0..Len(public)] ==
            IF i = 0 THEN <<>>
            ELSE IF i = 1 THEN expected(public[1])
            ELSE joined[i - 1] \o <<" ">> \o expected(public[i])
    IN  (Called("build_gql_query_object_model") /\ \A i \in 1..Len(public) : OneLevel(public[i].v)) =>
            res.val = joined[Len(public)]

\* C23 as stated: a field declared with two levels of generic wrapping
\* around a Config Model class X (e.g. Optional[List[X]]) is emitted as a
\* bare field name, with no nested selection for X.  Violated:
\* Optional[List[X]] and List[List[X]] are emitted with the selection of X.
C23_Original_TwoLevelsBare ==
    LET hint == arg.annotations[2].v
    IN  (/\ Called("build_gql_query_object_model")
         /\ arg.name = "Declared"
         /\ hint.t = "generic"
         /\ \E i \in 1..Len(hint.args) :
               /\ hint.args[i].t = "generic"
               /\ \E j \in 1..Len(hint.args[i].args) :
                     hint.args[i].args[j].t = "class" /\ hint.args[i].args[j].hcd) =>
            res.val = wire_name(Field.model_name) \o <<" ">> \o wire_name(Key.extra_attr)
                          \o <<" ">> \o wire_name(Field.is_public)

\* C23 (amended): field-selection generation resolves one level of generic
\* wrapping and, below it, typing.List wrappers only: a field declared with
\* two or more levels of wrapping is emitted with the nested selection of a
\* Config Model class X exactly when X is reached by taking the first type
\* argument at every level and every wrapper below the outermost one is a
\* typing.List (Optional[List[X]], List[List[X]]); otherwise
\* (List[Optional[X]], Optional[list[X]], Dict[str, List[X]]) it is emitted
\* as a bare field name.
C23_NestedListsResolved ==
    LET hint == arg.annotations[2].v
        first[n \in 0..(MaxWrapping + 1)] ==
            IF n = 0 THEN hint
            ELSE IF first[n - 1].t = "generic" THEN first[n - 1].args[1] ELSE first[n - 1]
        depth == CHOOSE n \in 0..(MaxWrapping + 1) :
                    first[n].t = "class" /\ \A m \in 0..(n - 1) : first[m].t = "generic"
        resolved == /\ first[depth].hcd
                    /\ \A n \in 1..(depth - 1) : first[n].origin = "List"
    IN  (/\ Called("build_gql_query_object_model")
         /\ arg.name = "Declared"
         /\ hint.t = "generic"
         /\ \E i \in 1..Len(hint.args) : hint.args[i].t = "generic") =>
            res.val = wire_name(Field.model_name) \o <<" ">> \o wire_name(Key.extra_attr)
                          \o (IF resolved
                              THEN <<" ", "{", " ">> \o build_gql_query_object_model(first[depth]) \o <<" ", "}">>
                              ELSE <<>>)
                          \o <<" ">> \o wire_name(Field.is_public)

\* The selection of a class with a field hinted Optional[List[List[X]]], X
\* itself holding a field of a Config Model class, has been built with the
\* selection of X.
C23_Witness ==
    /\ Called("build_gql_query_object_model")
    /\ arg.name = "Declared"
    /\ arg.annotations[2].v.t = "generic"
    /\ arg.annotations[2].v.origin = "Optional"
    /\ arg.annotations[2].v.args[1].t = "generic"
    /\ arg.annotations[2].v.args[1].origin = "List"
    /\ arg.annotations[2].v.args[1].args[1].t = "generic"
    /\ arg.annotations[2].v.args[1].args[1].args[1].t = "class"
    /\ arg.annotations[2].v.args[1].args[1].args[1].name = "Nested"
    /\ \E i \in 1..Len(res.val) : res.val[i] = "{" /\ \E j \in (i + 1)..Len(res.val) : res.val[j] = "{"

(***************************************************************************)
(* TimePeriod: construction and validation                                 *)
(***************************************************************************)

\* The proleptic Gregorian calendar of datetime.
is_leap(y) == y % 4 = 0 /\ (y % 100 # 0 \/ y % 400 = 0)
days_in_month(y, m) ==
    IF m = 2 THEN (IF is_leap(y) THEN 29 ELSE 28)
    ELSE IF m \in {4, 6, 9, 11} THEN 30 ELSE 31
days_before_year(y) ==
    (y - 1) * 365 + (y - 1) \div 4 - (y - 1) \div 100 + (y - 1) \div 400
RECURSIVE days_before_month(_, _)
days_before_month(y, m) ==
    IF m = 1 THEN 0 ELSE days_before_month(y, m - 1) + days_in_month(y, m - 1)
toordinal(v) == days_before_year(v.year) + days_before_month(v.year, v.month) + v.day

\* timedelta(days, seconds, microseconds), normalised as datetime does:
\* 0 <= microseconds < 10^6 and 0 <= seconds < 86400; days carries the sign.
timedelta(days, seconds, microseconds) ==
    LET s1 == seconds + microseconds \div 1000000
    IN  [days |-> days + s1 \div 86400, seconds |-> s1 % 86400,
         microseconds |-> microseconds % 1000000]

\* end_time - start_time.  A naive and an aware datetime cannot be
\* subtracted (TypeError); two aware ones are compared in UTC.
CanSubtract(a, b) == a.tzinfo.aware = b.tzinfo.aware
datetime_sub(a, b) ==
    timedelta(toordinal(a) - toordinal(b),
              (a.hour * 3600 + a.minute * 60 + a.second)
                  - (b.hour * 3600 + b.minute * 60 + b.second)
                  + (b.tzinfo.offset - a.tzinfo.offset) * 60,
              a.microsecond - b.microsecond)

\* The three messages of TimePeriod._validate.
MsgGreaterThanYear == "The difference between 'start_time' and 'end_time' cannot be greater than a year."
MsgStartBeforeEnd == "The 'start_time' must be before 'end_time'."
ValueError(msg) == [kind |-> "raise", err |-> "ValueError", msg |-> msg]
Valid == [kind |-> "valid"]

\* The checks of _validate on ddelta, in the order of the code.
check_ddeltaMutant(ddelta) ==
    IF ddelta > 367 THEN ValueError(MsgGreaterThanYear)
    ELSE IF ddelta < 0 THEN ValueError(MsgStartBeforeEnd)
    ELSE Valid
check_ddelta(ddelta) ==
    IF ddelta > 367 THEN ValueError(MsgGreaterThanYear)
    ELSE IF ddelta < 1
         THEN ValueError("The difference between 'start_time' and 'end_time' cannot be less than a day.")
    ELSE IF ddelta < 0 THEN ValueError(MsgStartBeforeEnd)
    ELSE Valid

\* TimePeriod._validate(start_time, end_time)
validate(start_time, end_time) ==
    IF ~CanSubtract(end_time, start_time)
    THEN [kind |-> "raise", err |-> "TypeError",
          msg |-> "can't subtract offset-naive and offset-aware datetimes"]
    ELSE check_ddelta(datetime_sub(end_time, start_time).days)

\* v.replace(hour=0, minute=0, second=0, microsecond=0, tzinfo=None)
replace_midnight(v) ==
    [v EXCEPT !.hour = 0, !.minute = 0, !.second = 0, !.microsecond = 0, !.tzinfo = Naive]

\* TimePeriod.__init__
TimePeriod(start_time, end_time, load_overrides) ==
    LET checked == validate(start_time, end_time)
    IN  IF checked.kind = "raise" THEN checked
        ELSE [kind |-> "return",
              val |-> [t |-> "object", cls |-> "TimePeriod",
                       start_time |-> replace_midnight(start_time),
                       end_time |-> replace_midnight(end_time),
                       load_overrides |-> load_overrides]]

\* v.replace(tzinfo=None)
replace_tzinfo_noneMutant(v) == v
replace_tzinfo_none(v) == [v EXCEPT !.tzinfo = Naive]

\* FixedTime.__init__
FixedTime(load_time, load_overrides) ==
    [kind |-> "return",
     val |-> [t |-> "object", cls |-> "FixedTime",
              load_time |-> replace_tzinfo_none(load_time),
              load_overrides |-> load_overrides]]

\* The datetimes the periods are built from: every day from 2024 up to
\* LastYear, at three times of day, naive or aware.
LastYear == 2025
DateTimes(years, zones) ==
    { PyDateTime(y, m, dd, tod[1], tod[2], tod[3], tod[4], z) :
        y \in years, m \in 1..12, dd \in 1..31, z \in zones,
        tod \in { <<0, 0, 0, 0>>, <<12, 30, 0, 0>>, <<23, 59, 59, 999999>> } }
StartTimes ==
    { PyDateTime(2024, 1, 1, 0, 0, 0, 0, Naive),
      PyDateTime(2024, 2, 29, 12, 30, 0, 0, Naive),
      PyDateTime(2024, 12, 31, 23, 59, 59, 999999, Naive),
      PyDateTime(2024, 3, 1, 0, 0, 0, 0, Tz(600)),
      PyDateTime(2024, 6, 30, 12, 30, 0, 0, Tz(0)) }

\* TimePeriod(start_time, end_time) is constructed.
TimePeriod_init ==
    /\ pc = "idle"
    /\ \E start_time \in StartTimes,
          end_time \in { v \in DateTimes(2024..LastYear, {Naive, Tz(0)}) :
                           v.day <= days_in_month(v.year, v.month) } :
          /\ pc' = "done"
          /\ op' = "TimePeriod"
          /\ arg' = [start_time |-> start_time, end_time |-> end_time]
          /\ res' = TimePeriod(start_time, end_time, PyNone)
          /\ UNCHANGED <<resp, sent, coll, offset, filters>>

\* FixedTime(load_time) is constructed.
FixedTime_init ==
    /\ pc = "idle"
    /\ \E load_time \in StartTimes :
          /\ pc' = "done"
          /\ op' = "FixedTime"
          /\ arg' = [load_time |-> load_time]
          /\ res' = FixedTime(load_time, PyNone)
          /\ UNCHANGED <<resp, sent, coll, offset, filters>>

NextTime == TimePeriod_init \/ FixedTime_init \/ Finish
SpecTime == InitEmpty /\ [][NextTime]_vars

\* The span end - start of the period asked for, where it is defined.
SpanDefined == CanSubtract(arg.end_time, arg.start_time)
Span == datetime_sub(arg.end_time, arg.start_time)

\* C10: constructing a TimePeriod whose end - start is less than one day
\* (end before start included) raises a ValueError; with end - start of
\* exactly one day the construction succeeds.
C10_ShortPeriodRejected ==
    (Called("TimePeriod") /\ SpanDefined) =>
        /\ Span.days < 1 => (res.kind = "raise" /\ res.err = "ValueError")
        /\ Span = [days |-> 1, seconds |-> 0, microseconds |-> 0] => res.kind = "return"

\* A period whose end lies before its start has been refused.
C10_Witness ==
    /\ Called("TimePeriod")
    /\ SpanDefined
    /\ Span.days < 0
    /\ res.kind = "raise"
    /\ res.err = "ValueError"

\* C11 as stated: constructing a TimePeriod whose end - start is greater
\* than 366 days raises a ValueError, and a span of exactly 366 days is
\* accepted.  Violated: spans from 366 days up to (not including) 368 days
\* are accepted, because _validate compares the whole days with 367.
C11_LongPeriodRejected ==
    (Called("TimePeriod") /\ SpanDefined) =>
        /\ (Span.days > 366 \/ (Span.days = 366 /\ (Span.seconds > 0 \/ Span.microseconds > 0)))
              => (res.kind = "raise" /\ res.err = "ValueError")
        /\ Span = [days |-> 366, seconds |-> 0, microseconds |-> 0] => res.kind = "return"

\* The same calendar date and time of day, whatever the timezone.
SameDate(a, b) == a.year = b.year /\ a.month = b.month /\ a.day = b.day
AtMidnight(a) == a.hour = 0 /\ a.minute = 0 /\ a.second = 0 /\ a.microsecond = 0

\* C12: a constructed TimePeriod stores start_time and end_time at
\* midnight, without timezone, on the caller's calendar dates; a
\* constructed FixedTime stores load_time without timezone, with the
\* caller's date and time of day.
C12_StoredTimesTruncated ==
    /\ (Called("TimePeriod") /\ res.kind = "return") =>
          /\ AtMidnight(res.val.start_time) /\ ~res.val.start_time.tzinfo.aware
          /\ AtMidnight(res.val.end_time) /\ ~res.val.end_time.tzinfo.aware
          /\ SameDate(res.val.start_time, arg.start_time)
          /\ SameDate(res.val.end_time, arg.end_time)
    /\ Called("FixedTime") =>
          /\ res.kind = "return"
          /\ ~res.val.load_time.tzinfo.aware
          /\ SameDate(res.val.load_time, arg.load_time)
          /\ res.val.load_time.hour = arg.load_time.hour
          /\ res.val.load_time.minute = arg.load_time.minute
          /\ res.val.load_time.second = arg.load_time.second
          /\ res.val.load_time.microsecond = arg.load_time.microsecond

\* A period given with timezone-aware datetimes off midnight has been
\* constructed.
C12_Witness ==
    /\ Called("TimePeriod")
    /\ res.kind = "return"
    /\ arg.start_time.tzinfo.aware
    /\ ~AtMidnight(arg.start_time)
    /\ ~AtMidnight(arg.end_time)

\* C27 as stated: every constructed TimePeriod has, on its stored
\* (midnight-truncated) fields, 1 day <= end_time - start_time <= 366 days.
\* Violated: _validate accepts untruncated spans of up to 367 days and a
\* fraction, stored as 367 or 368 days, and with datetimes of different
\* UTC offsets it accepts a period stored as 0 days.
C27_StoredSpanInRange ==
    (Called("TimePeriod") /\ res.kind = "return") =>
        LET stored == datetime_sub(res.val.end_time, res.val.start_time)
        IN  /\ stored.days >= 1
            /\ stored.days < 366 \/ stored = timedelta(366, 0, 0)

\* C28 as stated: each validation failure of TimePeriod is raised for its
\* own condition: a span above the maximum gives the greater-than-a-year
\* error, a non-negative span below one day the less-than-a-day error, and
\* an end_time before start_time the start-before-end error.  Violated: an
\* end_time before start_time gives the less-than-a-day error, because
\* ddelta < 1 is tested before ddelta < 0; the start-before-end error is
\* never raised.
C28_OwnMessagePerCondition ==
    (Called("TimePeriod") /\ SpanDefined) =>
        /\ Span.days > 367 => res = ValueError(MsgGreaterThanYear)
        /\ Span.days = 0 =>
              res = ValueError("The difference between 'start_time' and 'end_time' cannot be less than a day.")
        /\ Span.days < 0 => res = ValueError(MsgStartBeforeEnd)

(***************************************************************************)
(* The Gateway Client: EasClient construction, headers, one request        *)
(***************************************************************************)

\* The authentication strategies of zepben.eas.client.auth_method, as far as
\* EasClient uses them: verify_certificate, base_url_args and, for a
\* TokenAuth, the token held at the moment (None or "" when none is held).
BaseAuthMethod(verify_certificate) ==
    [t |-> "BaseAuthMethod", verify_certificate |-> verify_certificate,
     base_url_args |-> <<"https", "localhost", 8080>>]
TokenAuth(token, verify_certificate) ==
    [t |-> "TokenAuth", verify_certificate |-> verify_certificate,
     base_url_args |-> <<"https", "localhost", 8080>>, token |-> token]
AuthMethods ==
    { BaseAuthMethod(v) : v \in BOOLEAN }
    \cup { TokenAuth(tk, v) : tk \in { PyNone, PyStr(""), PyStr("Bearer abc") }, v \in BOOLEAN }

\* The parameters of EasClient.__init__, and keyword arguments of the
\* former constructor that it does not have.
InitParams == {"auth", "ca_filename", "session", "json_serialiser"}
FormerParams == {"token_fetcher", "username", "password", "client_id", "client_secret", "access_token"}

\* Calls EasClient(**kwargs): the keywords given and the value given for
\* auth (None when auth is not among them or is given as None).  A session
\* is always handed in, or made by the constructor.
ConstructorCalls ==
    { [names |-> n, auth |-> a, ca_filename |-> ca] :
        n \in SUBSET ({"auth", "ca_filename"} \cup FormerParams),
        a \in AuthMethods \cup {PyNone},
        ca \in {PyNone, PyStr("ca.pem")} }

\* EasClient.__init__: a keyword that is no parameter is refused by the
\* call itself (TypeError); then auth.verify_certificate is read.
EasClient_init(call) ==
    IF call.names \ InitParams # {} THEN TypeError
    ELSE LET auth == IF "auth" \in call.names THEN call.auth ELSE PyNone
         IN  IF auth = PyNone THEN AttributeError
             ELSE [t |-> "EasClient",
                   ca_filename |-> IF "ca_filename" \in call.names THEN call.ca_filename ELSE PyNone,
                   verify_certificate |-> auth.verify_certificate,
                   auth |-> auth]

\* The clients that can exist: the results of the constructor calls that
\* return.
Clients == { EasClient_init(call) : call \in ConstructorCalls } \ {TypeError, AttributeError}

\* EasClient._get_request_headers
get_request_headers(self) ==
    IF self.auth.t = "TokenAuth" /\ self.auth.token \notin {PyNone, PyStr("")}
    THEN [content_type |-> "application/json", authorization |-> self.auth.token]
    ELSE [content_type |-> "application/json"]

\* EasClient._get_ssl: a context on the CA file, or False.
get_ssl(self) ==
    IF self.verify_certificate THEN [cafile |-> self.ca_filename] ELSE [verify |-> FALSE]

\* session.post(construct_url(**base_url_args, path="/api/graphql"),
\*              headers=..., json=_json, ssl=...)
ClientPost(self, json) ==
    [method |-> "POST", url |-> self.auth.base_url_args \o <<"/api/graphql">>,
     headers |-> get_request_headers(self), json |-> json, ssl |-> get_ssl(self),
     allow_redirects |-> TRUE]

Outcomes ==
    { [t |-> "response", r |-> r] :
        r \in { x \in Responses :
                  /\ x.status \in {200, 304, 404, 500}
                  /\ x.location = NoLocation
                  /\ x.body \in { [result |-> "success"],
                                  [errors |-> <<"syntax error", "validation error">>] } } }
        \cup { [t |-> "error", err |-> e] :
                 e \in {"ClientConnectorCertificateError", "ClientConnectorError", "TimeoutError"} }

\* "async with self.session.post(...) as response: ..." of _do_post_request:
\* an error of the transport leaves the handler as it is.
session_postMutant(outcome) ==
    IF outcome.t = "error"
    THEN [kind |-> "raise", err |-> "EasClientError"]
    ELSE do_post_request(outcome.r)
session_post(outcome) ==
    IF outcome.t = "error"
    THEN [kind |-> "raise", err |-> outcome.err]
    ELSE do_post_request(outcome.r)

\* EasClient(**kwargs) is constructed.
EasClient_construct ==
    /\ pc = "idle"
    /\ \E call \in ConstructorCalls :
          LET made == EasClient_init(call)
          IN  /\ pc' = "done"
              /\ op' = "EasClient"
              /\ arg' = call
              /\ res' = IF made.t = "raise" THEN [kind |-> "raise", err |-> made.err]
                        ELSE [kind |-> "return", val |-> made]
              /\ UNCHANGED <<resp, sent, coll, offset, filters>>

(***************************************************************************)
(* The Gateway Client: payloads of the operations                          *)
(***************************************************************************)

\* Instances of the plain dataclasses of work_package.py, ingestor.py and
\* feeder_load_analysis_input.py: they are no HostingCapacityDataclass and
\* have neither to_json nor build_gql_query_object_model.
PlainObject(cls, fields) == [t |-> "object", cls |-> cls, fields |-> fields]
ModelConfig(vm_pu, transformer_tap_settings) ==
    PlainObject("ModelConfig", [vm_pu |-> vm_pu, transformer_tap_settings |-> transformer_tap_settings])
GeneratorConfig(model, solve, raw_results) ==
    PlainObject("GeneratorConfig", [model |-> model, solve |-> solve, raw_results |-> raw_results])


\* The request body of an operation: query document and variables.
Variables(keys, vals) == MapOf(keys, vals)

\* calibration_time_local.replace(microsecond=0, tzinfo=None)
parsed_timeMutant(v) == [v EXCEPT !.microsecond = 0]
parsed_time(v) == [v EXCEPT !.microsecond = 0, !.tzinfo = Naive]

\* "if transformer_tap_settings: ..." of async_run_hosting_capacity_calibration:
\* the generator_config the payload is made from.
calibration_generator_config(transformer_tap_settings, generator_config) ==
    IF transformer_tap_settings \notin {PyNone, PyStr("")}
    THEN IF generator_config # PyNone
         THEN IF generator_config.fields.model # PyNone
              THEN [generator_config EXCEPT
                       !.fields.model.fields.transformer_tap_settings = transformer_tap_settings]
              ELSE [generator_config EXCEPT
                       !.fields.model = ModelConfig(PyNone, transformer_tap_settings)]
         ELSE GeneratorConfig(ModelConfig(PyNone, transformer_tap_settings), PyNone, PyNone)
    ELSE generator_config

\* EasClient.async_run_hosting_capacity_calibration(calibration_name,
\*     calibration_time_local, feeders, transformer_tap_settings, generator_config)
\* (generator_config and its mapping generatorConfig are each computed once.)
async_run_hosting_capacity_calibration(a) ==
    CHOOSE built \in
        { IF IsRaise(generatorConfig) THEN generatorConfig
          ELSE build_request("runCalibration",
                   Variables(<<"calibrationName", "calibrationTimeLocal", "feeders", "generatorConfig">>,
                             <<a[1], PyStr(isoformat(parsed_time(a[2]))), a[3], generatorConfig>>)) :
            generatorConfig \in
                { IF generator_config # PyNone THEN call_to_json(generator_config) ELSE PyNone :
                    generator_config \in {calibration_generator_config(a[4], a[5])} } } : TRUE

\* The keys an operation adds to its variables: those whose argument is not
\* None, in the order of the code.
RECURSIVE SuppliedOnly(_, _)
SuppliedOnly(seq, vals) ==
    IF seq = <<>> THEN <<>>
    ELSE IF Head(vals) # PyNone THEN <<Head(seq)>> \o SuppliedOnly(Tail(seq), Tail(vals))
         ELSE SuppliedOnly(Tail(seq), Tail(vals))

\* EasClient.async_get_ingestor_run_list(query_filter, query_sort)
\* json[1] is query_filter.to_json() and json[2] is query_sort.to_json(),
\* for those given; then IngestorRun.build_gql_query_object_model() is
\* evaluated for the query document: IngestorRun is a plain dataclass and
\* has no such attribute, so the request is never built.
async_get_ingestor_run_list(a) ==
    CHOOSE built \in
        { IF IsRaise(json[1]) THEN json[1]
          ELSE IF IsRaise(json[2]) THEN json[2]
          ELSE AttributeError :
            json \in { [i \in 1..2 |-> IF a[i] # PyNone THEN call_to_json(a[i]) ELSE PyNone] } } : TRUE

\* EasClient.async_get_paged_opendss_models(limit, offset, query_filter, query_sort)
\* json[3] is query_filter.to_json() and json[4] is query_sort.to_json(),
\* for those given.
async_get_paged_opendss_models(a) ==
    CHOOSE built \in
        { IF IsRaise(json[3]) THEN json[3]
          ELSE IF IsRaise(json[4]) THEN json[4]
          ELSE [query |-> "pagedOpenDssModels",
                variables |-> Variables(SuppliedOnly(<<"limit", "offset", "filter", "sort">>, a),
                                        SuppliedOnly(<<a[1], a[2], json[3], json[4]>>, a))] :
            json \in { [i \in 3..4 |-> IF a[i] # PyNone THEN call_to_json(a[i]) ELSE PyNone] } } : TRUE

\* EasClient.async_get_hosting_capacity_calibration_sets()
async_get_hosting_capacity_calibration_sets(a) == build_request("getCalibrationSets", NoVariables)

\* EasClient.async_get_transformer_tap_settings(calibration_name, feeder, transformer_mrid)
async_get_transformer_tap_settings(a) ==
    build_request("getTransformerTapSettings",
        Variables(<<"calibrationName", "feeder", "transformerMrid">>, <<a[1], a[2], a[3]>>))

\* EasClient.async_run_feeder_load_analysis_report(feeder_load_analysis_input)
async_run_feeder_load_analysis_report(a) ==
    CHOOSE built \in
        { IF IsRaise(json) THEN json
          ELSE build_request("runFeederLoadAnalysis",
                   Variables(<<"input">>,
                       << [t |-> "map",
                           m |-> [key \in DOMAIN json.m \cup {Key.geographicalRegions} |->
                                     IF key = Key.geographicalRegions
                                     THEN (IF Key.feeders \in DOMAIN json.m THEN json.m[Key.feeders]
                                           ELSE PyNone)
                                     ELSE json.m[key]]] >>)) :
            json \in {call_to_json(a[1])} } : TRUE

(***************************************************************************)
(* The Gateway Client: invocations                                         *)
(***************************************************************************)

\* The arguments each operation is called with.
Arguments ==
  [ run_hosting_capacity_calibration |->
        { <<PyStr("TEST CALIBRATION"), tm, f, tap, gc>> :
            tm \in { PyDateTime(2025, 7, 12, 0, 0, 0, 0, Naive),
                     PyDateTime(2025, 7, 12, 1, 2, 3, 456, Tz(600)),
                     PyDateTime(2024, 2, 29, 23, 59, 59, 999999, Tz(0)) },
            f \in { PyNone, PyList(<<PyStr("one"), PyStr("two")>>) },
            tap \in { PyNone, PyStr(""), PyStr("test_tap_settings") },
            gc \in { PyNone,
                     GeneratorConfig(PyNone, PyNone, PyNone),
                     GeneratorConfig(ModelConfig(PyFloat("1.1"), PyNone), PlainObject("SolveConfig", [max_iter |-> PyInt(25)]), PyNone),
                     GeneratorConfig(ModelConfig(PyNone, PyStr("old_tap_settings")), PyNone,
                                     PlainObject("RawResultsConfig", [energy_meter_voltages_raw |-> PyBool(TRUE)])) } },
    get_ingestor_run_list |->
        { <<f, s>> :
            f \in { PyNone, PlainObject("IngestorRunsFilterInput", [id |-> PyInt(4), completed |-> PyNone]) },
            s \in { PyNone, PlainObject("IngestorRunsSortCriteriaInput", [status |-> Enum("Order", "ASC")]) } },
    get_paged_opendss_models |->
        { <<l, o, f, s>> :
            l \in { PyNone, PyInt(0), PyInt(5) }, o \in { PyNone, PyInt(0), PyInt(20) },
            f \in { PyNone, MakeInstance("GetOpenDssModelsFilterInput", 1, PyNone, "unset", "none"),
                    MakeInstance("GetOpenDssModelsFilterInput", 1, PyStr("x"), "typed", "none"),
                    MakeInstance("GetOpenDssModelsFilterInput", 1, PyBytes("x"), "typed", "none") },
            s \in { PyNone,
                    MakeInstance("GetOpenDssModelsSortCriteriaInput", 2, Enum("Order", "DESC"), "unset", "none") } },
    get_transformer_tap_settings |->
        { <<PyStr("TEST CALIBRATION"), f, m>> :
            f \in { PyNone, PyStr("feeder") }, m \in { PyNone, PyStr("transformer") } },
    run_feeder_load_analysis_report |->
        { <<PlainObject("FeederLoadAnalysisInput",
                            [start_date |-> PyStr("2022-04-01"), end_date |-> PyStr("2022-12-31"),
                             feeders |-> f, geographical_regions |-> g])>> :
            f \in { PyNone, PyList(<<PyStr("one"), PyStr("two")>>) }, g \in { PyNone, PyList(<<PyStr("region")>>) } },
    get_hosting_capacity_calibration_sets |-> { <<>> },
    run_hosting_capacity_work_package |->
        { <<PlainObject("WorkPackageConfig", [name |-> PyStr("wp"), syf_config |-> PyNone])>> },
    get_work_package_cost_estimation |->
        { <<PlainObject("WorkPackageConfig", [name |-> PyStr("wp"), syf_config |-> PyNone])>> },
    cancel_hosting_capacity_work_package |-> { <<PyStr("1")>>, <<PyStr("2")>> },
    get_hosting_capacity_work_packages_progress |-> { <<>> },
    upload_study |->
        { <<PlainObject("Study", [name |-> PyStr("study"), description |-> PyStr("x"),
                                  tags |-> PyList(<<>>), results |-> PyList(<<>>), styles |-> PyList(<<>>)])>> },
    run_ingestor |->
        { <<PyList(<<>>)>>,
          <<PyList(<<PlainObject("IngestorConfigInput", [key |-> PyStr("k"), value |-> PyStr("v")])>>)>> },
    get_ingestor_run |-> { <<PyInt(1)>> },
    get_hosting_capacity_calibration_run |-> { <<PyStr("1")>>, <<PyStr("2")>> },
    run_opendss_export |->
        { <<MakeInstance("OpenDssConfig", 1, PyStr("scenario1"), "unset", "none")>>,
          <<MakeInstance("OpenDssConfig", 4, PyObject("FixedTime"), "typed", "none")>> },
    get_opendss_model_download_url |-> { <<1>>, <<2>> },
    get_opendss_model |-> { <<TargetId>>, <<9>> } ]

\* The coroutine of an operation is run on a client (awaited by the caller,
\* or run to completion by the blocking method): the handler builds the body; when
\* that raises the call is over, otherwise the handler runs on, without
\* giving up control, to the session.post of _do_post_request, hands the
\* request to the session and waits for the answer.  The state keeps the
\* arguments as the caller passed them (args) and as the caller finds them
\* from then on (after).
Raised(built) == "err" \in DOMAIN built
Invoke(name, self, a, built, after) ==
    /\ op' = name
    /\ arg' = [self |-> self, args |-> a, after |-> after]
    /\ \E json \in {built} :
          IF Raised(json)
          THEN /\ sent' = <<>>
               /\ res' = [kind |-> "raise", err |-> json.err]
               /\ filters' = filters
               /\ pc' = "done"
          ELSE /\ sent' = <<ClientPost(self, json)>>
               /\ res' = [kind |-> "pending"]
               /\ filters' = catch_warnings(self, filters)
               /\ pc' = "awaiting"
    /\ UNCHANGED <<resp, coll, offset>>

call_run_hosting_capacity_calibration ==
    /\ pc = "idle"
    /\ \E self \in Clients, a \in Arguments.run_hosting_capacity_calibration :
            Invoke("run_hosting_capacity_calibration", self, a, async_run_hosting_capacity_calibration(a),
                   [a EXCEPT ![5] = IF a[5] = PyNone THEN PyNone
                                    ELSE calibration_generator_config(a[4], a[5])])

call_get_ingestor_run_list ==
    /\ pc = "idle"
    /\ \E self \in Clients, a \in Arguments.get_ingestor_run_list :
            Invoke("get_ingestor_run_list", self, a, async_get_ingestor_run_list(a), a)

call_get_paged_opendss_models ==
    /\ pc = "idle"
    /\ \E self \in Clients, a \in Arguments.get_paged_opendss_models :
            Invoke("get_paged_opendss_models", self, a, async_get_paged_opendss_models(a), a)

call_get_hosting_capacity_calibration_sets ==
    /\ pc = "idle"
    /\ \E self \in Clients :
            Invoke("get_hosting_capacity_calibration_sets", self, <<>>,
                   async_get_hosting_capacity_calibration_sets(<<>>), <<>>)

call_get_transformer_tap_settings ==
    /\ pc = "idle"
    /\ \E self \in Clients, a \in Arguments.get_transformer_tap_settings :
            Invoke("get_transformer_tap_settings", self, a, async_get_transformer_tap_settings(a), a)

call_run_feeder_load_analysis_report ==
    /\ pc = "idle"
    /\ \E self \in Clients, a \in Arguments.run_feeder_load_analysis_report :
            Invoke("run_feeder_load_analysis_report", self, a, async_run_feeder_load_analysis_report(a), a)

IsClientOp ==
    op \in {"run_hosting_capacity_calibration", "get_ingestor_run_list", "get_paged_opendss_models",
            "get_hosting_capacity_calibration_sets", "get_transformer_tap_settings",
            "run_feeder_load_analysis_report"}

\* The answer to the request of an operation arrives (a response, or an
\* error of the transport) and the event loop resumes its handler inside
\* _do_post_request.  With a response that is ok the handler goes on to
\* "await response.json()" and waits for the body; otherwise the call is over.
Invoke_resumes ==
    /\ pc = "awaiting"
    /\ IsClientOp
    /\ \E outcome \in Outcomes :
          /\ resp' = outcome
          /\ IF outcome.t = "response" /\ responseOk(outcome.r)
             THEN res' = res /\ pc' = "reading"   \* await response.json()
             ELSE res' = session_post(outcome) /\ pc' = "done"
    /\ UNCHANGED <<op, arg, sent, coll, offset, filters>>

\* The body of the response is in and the event loop resumes the handler in
\* "return await response.json()": the call is over.
Invoke_returns ==
    /\ pc = "reading"
    /\ IsClientOp
    /\ res' = session_post(resp)
    /\ pc' = "done"
    /\ UNCHANGED <<op, arg, resp, sent, coll, offset, filters>>

\* A page request of the scan fails: the server answers with an error
\* status, or the transport raises.  The error leaves async_get_opendss_model.
get_opendss_model_page_fails ==
    /\ pc = "awaiting"
    /\ Called("get_opendss_model")
    /\ \E outcome \in { o \in Outcomes : o.t = "error" \/ ~responseOk(o.r) } :
          /\ resp' = outcome
          /\ res' = session_post(outcome)
    /\ pc' = "done"
    /\ UNCHANGED <<op, arg, sent, coll, offset, filters>>

\* The collection the scan runs over here: MaxModels records, the last one
\* carrying TargetId.
ScannedCollections ==
    { c \in Collections :
        Len(c) = MaxModels /\ \A i \in 1..Len(c) : (c[i].id = TargetId) <=> (i = MaxModels) }

NextClient ==
    \/ EasClient_construct
    \/ call_run_hosting_capacity_calibration
    \/ call_get_ingestor_run_list
    \/ call_get_paged_opendss_models
    \/ call_get_hosting_capacity_calibration_sets
    \/ call_get_transformer_tap_settings
    \/ call_run_feeder_load_analysis_report
    \/ Invoke_resumes
    \/ Invoke_returns
    \/ get_opendss_model
    \/ get_opendss_model_page
    \/ get_opendss_model_page_resumes
    \/ async_get_opendss_model_iteration
    \/ get_opendss_model_page_fails
    \/ Finish
InitClient == InitCommon /\ coll \in ScannedCollections
SpecClient == InitClient /\ [][NextClient]_vars

\* Records the server deletes while a scan is under way, at most.
MaxDeleted == 1

\* While the handler is suspended in the await of a page request (the
\* request is on its way, or its answer is being read) the server deletes
\* one record of the collection: the later records move to lower offsets.
server_deletes ==
    /\ pc \in {"awaiting", "reading"}
    /\ Called("get_opendss_model")
    /\ Len(coll) > MaxModels - MaxDeleted
    /\ \E i \in 1..Len(coll) :
          coll' = SubSeq(coll, 1, i - 1) \o SubSeq(coll, i + 1, Len(coll))
    /\ UNCHANGED <<op, arg, resp, res, sent, offset, pc, filters>>

NextMutating ==
    \/ get_opendss_model
    \/ get_opendss_model_page
    \/ get_opendss_model_page_resumes
    \/ async_get_opendss_model_iteration
    \/ server_deletes
    \/ Finish
SpecMutating == InitClient /\ [][NextMutating]_vars

(***************************************************************************)
(* Claims about the Gateway Client                                         *)
(***************************************************************************)

\* The variables of the request sent (one request has been sent).
SentVariables == sent[1].json.variables.m

\* C13 as stated: whenever transformer_tap_settings is supplied to
\* run_hosting_capacity_calibration, a request is sent whose
\* generatorConfig.model.transformerTapSettings is the supplied value, and
\* a supplied generator_config reaches the payload as a map.  Violated:
\* GeneratorConfig has no to_json, the call raises AttributeError before
\* anything is sent.
C13_TapSettingsInPayload ==
    Called("run_hosting_capacity_calibration") =>
        /\ arg.args[4] # PyNone =>
              /\ Len(sent) = 1
              /\ SentVariables["generatorConfig"].t = "map"
              /\ SentVariables["generatorConfig"].m[Key.model].t = "map"
              /\ SentVariables["generatorConfig"].m[Key.model].m[Key.transformerTapSettings] = arg.args[4]
        /\ arg.args[5] # PyNone =>
              /\ Len(sent) = 1
              /\ SentVariables["generatorConfig"].t = "map"

\* C14: every calibration request carries calibrationTimeLocal as the
\* ISO-8601 text of the given date, hour, minute and second, without
\* fraction and without offset; with feeders, transformer_tap_settings and
\* generator_config not supplied the request is sent and its variables are
\* exactly calibrationName, calibrationTimeLocal, feeders = null and
\* generatorConfig = null.
C14_CalibrationTimeLocal ==
    Called("run_hosting_capacity_calibration") =>
        /\ sent # <<>> =>
              SentVariables["calibrationTimeLocal"] =
                  PyStr(isoformat(PyDateTime(arg.args[2].year, arg.args[2].month, arg.args[2].day,
                                             arg.args[2].hour, arg.args[2].minute, arg.args[2].second,
                                             0, Naive)))
        /\ (arg.args[3] = PyNone /\ arg.args[4] = PyNone /\ arg.args[5] = PyNone) =>
              /\ Len(sent) = 1
              /\ DOMAIN SentVariables =
                    {"calibrationName", "calibrationTimeLocal", "feeders", "generatorConfig"}
              /\ SentVariables["calibrationName"] = arg.args[1]
              /\ SentVariables["feeders"] = PyNone
              /\ SentVariables["generatorConfig"] = PyNone

\* A calibration with only a name and a timezone-aware time with
\* microseconds has been sent.
C14_Witness ==
    /\ Called("run_hosting_capacity_calibration")
    /\ Len(sent) = 1
    /\ arg.args[2].tzinfo.aware
    /\ arg.args[2].microsecond # 0
    /\ arg.args[3] = PyNone /\ arg.args[4] = PyNone /\ arg.args[5] = PyNone
    /\ SentVariables["calibrationTimeLocal"] = PyStr("2025-07-12T01:02:03")

\* C15 as stated: get_ingestor_run_list and get_paged_opendss_models send a
\* request whose variables have a key exactly for each optional argument
\* that is not None (the empty map when none is), and
\* get_hosting_capacity_calibration_sets sends a body without variables.
\* Violated: get_ingestor_run_list raises AttributeError
\* (IngestorRun.build_gql_query_object_model does not exist) and sends
\* nothing.
C15_OptionalKeysOnlyWhenSupplied ==
    /\ (Called("get_paged_opendss_models") /\ (arg.args[3] = PyNone \/ AllSupported(arg.args[3]))) =>
          /\ Len(sent) = 1
          /\ DOMAIN SentVariables =
                { <<"limit", "offset", "filter", "sort">>[i] : i \in { n \in 1..4 : arg.args[n] # PyNone } }
    /\ Called("get_ingestor_run_list") =>
          /\ Len(sent) = 1
          /\ DOMAIN SentVariables =
                { <<"filter", "sort">>[i] : i \in { n \in 1..2 : arg.args[n] # PyNone } }
    /\ Called("get_hosting_capacity_calibration_sets") =>
          /\ Len(sent) = 1
          /\ "variables" \notin DOMAIN sent[1].json

\* C16 as stated: run_feeder_load_analysis_report sends an input whose
\* geographicalRegions equals the feeders of the input, the feeders key
\* being sent with the same value.  Violated: FeederLoadAnalysisInput has
\* no to_json, the call raises AttributeError and sends nothing.
C16_GeographicalRegionsFromFeeders ==
    Called("run_feeder_load_analysis_report") =>
        /\ Len(sent) = 1
        /\ SentVariables["input"].m[Key.geographicalRegions] = arg.args[1].fields.feeders
        /\ SentVariables["input"].m[Key.feeders] = arg.args[1].fields.feeders

\* C17 as stated: a request carries the authorization header, equal to the
\* token, exactly when the authentication strategy holds a token; and a
\* client is constructed whatever auth is given, None included.  Violated:
\* EasClient() and EasClient(auth=None) raise AttributeError.
C17_AuthorizationHeader ==
    /\ (IsClientOp /\ sent # <<>>) =>
          IF arg.self.auth.t = "TokenAuth" /\ arg.self.auth.token \notin {PyNone, PyStr("")}
          THEN /\ "authorization" \in DOMAIN sent[1].headers
               /\ sent[1].headers.authorization = arg.self.auth.token
          ELSE "authorization" \notin DOMAIN sent[1].headers
    /\ (Called("EasClient") /\ arg.names \subseteq InitParams) => res.kind = "return"

\* C18 as stated: constructing a client with contradicting authentication
\* parameters raises ValueError.  Violated: the constructor has no such
\* parameters, the call raises TypeError for the unexpected keyword.
C18_ConflictingAuthRaisesValueError ==
    LET Conflicting(names) ==
            \/ /\ {"auth", "token_fetcher"} \cap names # {}
               /\ {"username", "password", "client_secret"} \cap names # {}
            \/ /\ "access_token" \in names
               /\ {"client_id", "client_secret", "username", "password", "token_fetcher"} \cap names # {}
    IN  (Called("EasClient") /\ Conflicting(arg.names)) =>
            (res.kind = "raise" /\ res.err = "ValueError")

\* The body the coroutine of an operation builds for the arguments, for the
\* operations that send one POST request (all but
\* get_opendss_model_download_url and get_opendss_model).
AsyncBuilt(o, a) ==
    CASE o = "run_hosting_capacity_calibration" -> async_run_hosting_capacity_calibration(a)
      [] o = "get_ingestor_run_list" -> async_get_ingestor_run_list(a)
      [] o = "get_paged_opendss_models" -> async_get_paged_opendss_models(a)
      [] o = "get_hosting_capacity_calibration_sets" -> async_get_hosting_capacity_calibration_sets(a)
      [] o = "get_transformer_tap_settings" -> async_get_transformer_tap_settings(a)
      [] o = "run_feeder_load_analysis_report" -> async_run_feeder_load_analysis_report(a)
      \* async_run_hosting_capacity_work_package(work_package):
      \* build_request(..., work_package.to_json())
      [] o = "run_hosting_capacity_work_package" ->
            CHOOSE built \in { IF IsRaise(json) THEN json ELSE build_request("runWorkPackage", json) :
                                 json \in {call_to_json(a[1])} } : TRUE
      \* async_get_work_package_cost_estimation(work_package)
      [] o = "get_work_package_cost_estimation" ->
            CHOOSE built \in { IF IsRaise(json) THEN json
                               ELSE build_request("getWorkPackageCostEstimation", json) :
                                 json \in {call_to_json(a[1])} } : TRUE
      \* async_cancel_hosting_capacity_work_package(work_package_id)
      [] o = "cancel_hosting_capacity_work_package" ->
            build_request("cancelWorkPackage", Variables(<<"workPackageId">>, <<a[1]>>))
      \* async_get_hosting_capacity_work_packages_progress(): the query is
      \* formatted with WorkPackageProgress.build_gql_query_object_model(),
      \* which a plain dataclass does not have.
      [] o = "get_hosting_capacity_work_packages_progress" -> AttributeError
      \* async_upload_study(study): {"study": study.to_json()}
      [] o = "upload_study" ->
            CHOOSE built \in { IF IsRaise(json) THEN json
                               ELSE build_request("uploadStudy", Variables(<<"study">>, <<json>>)) :
                                 json \in {call_to_json(a[1])} } : TRUE
      \* async_run_ingestor(run_config): {"runConfig": [asdict(x) for x in run_config]}
      [] o = "run_ingestor" ->
            build_request("executeIngestor",
                Variables(<<"runConfig">>,
                          << PyList([i \in 1..Len(a[1].items) |->
                                        MapOf(<<"key", "value">>,
                                              <<a[1].items[i].fields.key, a[1].items[i].fields.value>>)]) >>))
      \* async_get_ingestor_run(ingestor_run_id): the query is formatted with
      \* IngestorRun.build_gql_query_object_model(), which a plain dataclass
      \* does not have.
      [] o = "get_ingestor_run" -> AttributeError
      \* async_get_hosting_capacity_calibration_run(id_)
      [] o = "get_hosting_capacity_calibration_run" ->
            build_request("getCalibrationRun", Variables(<<"id">>, <<a[1]>>))
      \* async_run_opendss_export(config): {"input": config.to_json()}
      [] o = "run_opendss_export" ->
            CHOOSE built \in { IF IsRaise(json) THEN json
                               ELSE build_request("createOpenDssModel", Variables(<<"input">>, <<json>>)) :
                                 json \in {call_to_json(a[1])} } : TRUE

(***************************************************************************)
(* The two forms of an operation: blocking method and coroutine            *)
(***************************************************************************)

\* An operation is called in its blocking form, or its coroutine function
\* is called and the coroutine awaited.
Forms == {"blocking", "async"}

\* The remote operations of EasClient.  For each: the parameters of the
\* blocking method (after self), the names it passes, in this order, to the
\* coroutine function async_<operation>, and the parameters of the coroutine
\* function.  Every parameter that has a default has the default None.
Methods ==
  [ run_hosting_capacity_work_package |->
        [params |-> <<"work_package">>, passes |-> <<"work_package">>, coroutine |-> <<"work_package">>],
    get_work_package_cost_estimation |->
        [params |-> <<"work_package">>, passes |-> <<"work_package">>, coroutine |-> <<"work_package">>],
    cancel_hosting_capacity_work_package |->
        [params |-> <<"work_package_id">>, passes |-> <<"work_package_id">>,
         coroutine |-> <<"work_package_id">>],
    get_hosting_capacity_work_packages_progress |->
        [params |-> <<>>, passes |-> <<>>, coroutine |-> <<>>],
    run_feeder_load_analysis_report |->
        [params |-> <<"feeder_load_analysis_input">>, passes |-> <<"feeder_load_analysis_input">>,
         coroutine |-> <<"feeder_load_analysis_input">>],
    upload_study |->
        [params |-> <<"study">>, passes |-> <<"study">>, coroutine |-> <<"study">>],
    run_ingestor |->
        [params |-> <<"run_config">>, passes |-> <<"run_config">>, coroutine |-> <<"run_config">>],
    get_ingestor_run |->
        [params |-> <<"ingestor_run_id">>, passes |-> <<"ingestor_run_id">>,
         coroutine |-> <<"ingestor_run_id">>],
    get_ingestor_run_list |->
        [params |-> <<"query_filter", "query_sort">>, passes |-> <<"query_filter", "query_sort">>,
         coroutine |-> <<"query_filter", "query_sort">>],
    run_hosting_capacity_calibration |->
        [params |-> <<"calibration_name", "local_calibration_time", "feeders",
                      "transformer_tap_settings", "generator_config">>,
         passes |-> <<"calibration_name", "local_calibration_time", "feeders",
                      "transformer_tap_settings", "generator_config">>,
         coroutine |-> <<"calibration_name", "calibration_time_local", "feeders",
                         "transformer_tap_settings", "generator_config">>],
    get_hosting_capacity_calibration_run |->
        [params |-> <<"id_">>, passes |-> <<"id_">>, coroutine |-> <<"id_">>],
    get_hosting_capacity_calibration_sets |->
        [params |-> <<>>, passes |-> <<>>, coroutine |-> <<>>],
    get_transformer_tap_settings |->
        [params |-> <<"calibration_name", "feeder", "transformer_mrid">>,
         passes |-> <<"calibration_name", "feeder", "transformer_mrid">>,
         coroutine |-> <<"calibration_name", "feeder", "transformer_mrid">>],
    run_opendss_export |->
        [params |-> <<"config">>, passes |-> <<"config">>, coroutine |-> <<"config">>],
    get_paged_opendss_models |->
        [params |-> <<"limit", "offset", "query_filter", "query_sort">>,
         passes |-> <<"limit", "offset", "query_filter", "query_sort">>,
         coroutine |-> <<"limit", "offset", "query_filter", "query_sort">>],
    get_opendss_model_download_url |->
        [params |-> <<"run_id">>, passes |-> <<"run_id">>, coroutine |-> <<"run_id">>],
    get_opendss_model |->
        [params |-> <<"model_id">>, passes |-> <<"model_id">>, coroutine |-> <<"model_id">>] ]

\* "self.async_<operation>(<names passed>)" in the blocking method called
\* with the positional arguments a: the values the parameters of the
\* coroutine function are bound to, in the order of these parameters; one
\* that is passed nothing is bound to its default.
Forward(o, a) ==
    LET m == Methods[o]
        ValueOf(name) == a[CHOOSE i \in 1..Len(m.params) : m.params[i] = name]
    IN  [i \in 1..Len(m.coroutine) |->
            IF i <= Len(m.passes) THEN ValueOf(m.passes[i]) ELSE PyNone]

\* The thread a method is called in, as asyncio sees it: whether it is the
\* main thread, and its current event loop: "never_set" (set_event_loop was
\* never called in it), "cleared" (set to None, as asyncio.run leaves it),
\* "open" (a loop is set and is not running), "closed" (the loop set has
\* been closed), "running" (the caller is a coroutine or callback of the
\* loop).
Threads ==
    [ main : BOOLEAN, loop : {"never_set", "cleared", "open", "closed", "running"} ]

RuntimeError == [kind |-> "raise", err |-> "RuntimeError"]

\* asyncio.get_event_loop() (Python 3.11): the running loop; else the loop
\* set for the thread; else, in the main thread when set_event_loop was
\* never called, a new loop, which it sets; else RuntimeError("There is no
\* current event loop in thread ...").
get_event_loop(thread) ==
    IF thread.loop = "running"
    THEN [kind |-> "return", val |-> [closed |-> FALSE, running |-> TRUE]]
    ELSE IF thread.loop \in {"open", "closed"}
    THEN [kind |-> "return", val |-> [closed |-> thread.loop = "closed", running |-> FALSE]]
    ELSE IF thread.main /\ thread.loop = "never_set"
    THEN [kind |-> "return", val |-> [closed |-> FALSE, running |-> FALSE]]
    ELSE RuntimeError

\* loop.run_until_complete(future) of asyncio, on entry: _check_closed()
\* raises RuntimeError("Event loop is closed"), _check_running() raises
\* RuntimeError("This event loop is already running"); otherwise the
\* coroutine is wrapped in a task and the loop runs.
run_until_complete_enter(loop) ==
    IF loop.closed THEN RuntimeError
    ELSE IF loop.running THEN RuntimeError
    ELSE [kind |-> "return", val |-> [t |-> "none"]]

\* loop.run_until_complete(future) once the task of the coroutine is done:
\* "return future.result()" returns the value the coroutine returned, or
\* raises the exception that left it.
run_until_complete(future) ==
    IF future.kind = "raise" THEN future
    ELSE [kind |-> "return", val |-> future.val]

\* Here the operation is carried out twice, once in each form, by two
\* clients made alike that are called in threads alike with equal arguments
\* against servers that behave alike: op is the operation; arg holds the
\* client, the thread of the caller of the blocking method (the coroutine
\* form is awaited by its caller, or run by a loop its caller has made),
\* the arguments of the caller (args), the arguments the coroutine function
\* received from the blocking method (forwarded), and the behaviour of the
\* server (its answer number "at" to a run is "outcome", every other answer
\* is the page asked for); resp, res, offset, filters and pc hold one value
\* per form; sent holds the requests of both runs, each with its form.  pc
\* of the blocking form is also "scheduled" (the coroutine is made and
\* handed to run_until_complete) and "completed" (the task of the coroutine
\* is done, res holds its result).
InitForms ==
    /\ \E o \in DOMAIN Methods :
          /\ op = o
          /\ \E self \in { c \in Clients :
                             /\ c.ca_filename = PyNone
                             /\ c.auth \in {BaseAuthMethod(FALSE), TokenAuth(PyStr("Bearer abc"), TRUE)} },
                a \in Arguments[o],
                server \in
                    IF o = "get_opendss_model"
                    THEN { [at |-> 0, outcome |-> [t |-> "none"]] }
                         \cup { [at |-> n, outcome |-> x] :
                                  n \in 1..3,
                                  x \in { y \in Outcomes : y.t = "error" \/ ~responseOk(y.r) } }
                    ELSE IF o = "get_opendss_model_download_url"
                    THEN { [at |-> 1, outcome |-> x] :
                             x \in { [t |-> "response", r |-> r] :
                                       r \in { y \in Responses :
                                                 /\ y.status \in {200, 301, 302, 404}
                                                 /\ y.body = [result |-> "success"]
                                                 /\ y.location # "" } }
                                   \cup { y \in Outcomes : y.t = "error" } }
                    ELSE { [at |-> 1, outcome |-> x] : x \in Outcomes },
                thread \in Threads :
                arg = [self |-> self, thread |-> thread, args |-> a, forwarded |-> <<>>,
                       server |-> server]
          /\ coll \in IF o = "get_opendss_model" THEN ScannedCollections \cup {<<>>} ELSE {<<>>}
    /\ resp = [f \in Forms |-> NoResp]
    /\ res = [f \in Forms |-> NoRes]
    /\ sent = <<>>
    /\ offset = [f \in Forms |-> 0]
    /\ filters = [f \in Forms |-> <<>>]
    /\ pc = [f \in Forms |-> "idle"]

\* The coroutine of form f returns or raises: to the caller who awaits it,
\* or, in the blocking form, into the task run_until_complete waits for.
Returns(f, outcome) ==
    /\ res' = [res EXCEPT ![f] = outcome]
    /\ pc' = [pc EXCEPT ![f] = IF f = "blocking" THEN "completed" ELSE "done"]

\* The coroutine of form f hands a request to the session, inside
\* _do_post_request or _do_get_request, and waits for the answer.
Sends(f, request) ==
    /\ sent' = Append(sent, [form |-> f, request |-> request])
    /\ filters' = [filters EXCEPT ![f] = catch_warnings(arg.self, @)]
    /\ pc' = [pc EXCEPT ![f] = "awaiting"]

\* The blocking method is called: "return
\* get_event_loop().run_until_complete(self.async_<operation>(...))" gets
\* the loop of the thread, or raises; calls the coroutine function, which
\* gives the coroutine without running any of it; and enters
\* run_until_complete, which raises or makes the task of the coroutine and
\* runs the loop.
blocking_method_called ==
    /\ pc["blocking"] = "idle"
    /\ \E loop \in {get_event_loop(arg.thread)} :
          IF loop.kind = "raise"
          THEN /\ res' = [res EXCEPT !["blocking"] = loop]
               /\ pc' = [pc EXCEPT !["blocking"] = "done"]
               /\ arg' = arg
          ELSE /\ arg' = [arg EXCEPT !.forwarded = Forward(op, arg.args)]
               /\ \E entered \in {run_until_complete_enter(loop.val)} :
                     IF entered.kind = "raise"
                     THEN /\ res' = [res EXCEPT !["blocking"] = entered]
                          /\ pc' = [pc EXCEPT !["blocking"] = "done"]
                     ELSE /\ res' = res
                          /\ pc' = [pc EXCEPT !["blocking"] = "scheduled"]
    /\ UNCHANGED <<op, resp, sent, coll, offset, filters>>

\* The coroutine starts, awaited by the caller who called the coroutine
\* function with the arguments, or run by the loop of run_until_complete:
\* it runs up to its first request, or to the error that building the body
\* raises.
coroutine_starts ==
    \E f \in Forms :
        /\ \/ f = "async" /\ pc[f] = "idle"
           \/ f = "blocking" /\ pc[f] = "scheduled"
        /\ LET a == IF f = "blocking" THEN arg.forwarded ELSE arg.args
           IN  IF op = "get_opendss_model"
               THEN \* offset = 0; while True: await self.async_get_paged_opendss_models(page_size, offset)
                    /\ Sends(f, ClientPost(arg.self,
                                   async_get_paged_opendss_models(<<PyInt(page_size), PyInt(0), PyNone, PyNone>>)))
                    /\ offset' = [offset EXCEPT ![f] = 0]
                    /\ res' = [res EXCEPT ![f] = [kind |-> "pending"]]
               ELSE IF op = "get_opendss_model_download_url"
               THEN \* session.get(construct_url(..., path=f"/api/opendss-model/{run_id}"), ...)
                    /\ Sends(f, [method |-> "GET",
                                 url |-> arg.self.auth.base_url_args \o <<"/api/opendss-model/", a[1]>>,
                                 headers |-> get_request_headers(arg.self), ssl |-> get_ssl(arg.self),
                                 allow_redirects |-> FALSE])
                    /\ res' = [res EXCEPT ![f] = [kind |-> "pending"]]
                    /\ UNCHANGED offset
               ELSE \E json \in {AsyncBuilt(op, a)} :
                       IF Raised(json)
                       THEN /\ Returns(f, [kind |-> "raise", err |-> json.err])
                            /\ UNCHANGED <<sent, filters, offset>>
                       ELSE /\ Sends(f, ClientPost(arg.self, json))
                            /\ res' = [res EXCEPT ![f] = [kind |-> "pending"]]
                            /\ UNCHANGED offset
        /\ UNCHANGED <<op, arg, resp, coll>>

\* The server answers the request a run waits for, and the event loop
\* resumes the coroutine inside "async with ... as response":
\* _do_post_request with a response that is ok goes on to
\* "await response.json()"; otherwise the response is interpreted, or the
\* error of the transport leaves the coroutine.
coroutine_resumes ==
    \E f \in Forms :
        /\ pc[f] = "awaiting"
        /\ \E outcome \in
                { IF Cardinality({ i \in 1..Len(sent) : sent[i].form = f }) = arg.server.at
                  THEN arg.server.outcome
                  ELSE [t |-> "response",
                        r |-> [status |-> 200,
                               body |-> [data |-> [pagedOpenDssModels |->
                                                       pagedOpenDssModels(coll, page_size, offset[f])]],
                               location |-> NoLocation]] } :
              /\ resp' = [resp EXCEPT ![f] = outcome]
              /\ IF op = "get_opendss_model_download_url"
                 THEN Returns(f, IF outcome.t = "error" THEN [kind |-> "raise", err |-> outcome.err]
                                 ELSE do_get_request(outcome.r))
                 ELSE IF outcome.t = "response" /\ responseOk(outcome.r)
                      THEN res' = res /\ pc' = [pc EXCEPT ![f] = "reading"]
                      ELSE Returns(f, session_post(outcome))
        /\ UNCHANGED <<op, arg, sent, coll, offset, filters>>

\* The body of the response is in and the coroutine is resumed in "return
\* await response.json()": the operation returns it; async_get_opendss_model
\* goes on with its iteration, up to its return, its raise or its next page
\* request.
coroutine_reads_body ==
    \E f \in Forms :
        /\ pc[f] = "reading"
        /\ IF op = "get_opendss_model"
           THEN LET model_id == (IF f = "blocking" THEN arg.forwarded ELSE arg.args)[1]
                    page == resp[f].r.body.data.pagedOpenDssModels
                    hit == find_model(page.models, model_id)
                    advanced == next_offset(offset[f], Len(page.models))
                IN  IF hit # 0
                    THEN /\ Returns(f, [kind |-> "return", val |-> page.models[hit]])
                         /\ UNCHANGED <<sent, filters, offset>>
                    ELSE /\ offset' = [offset EXCEPT ![f] = advanced]
                         /\ IF advanced >= page.totalCount
                            THEN /\ Returns(f, [kind |-> "raise", err |-> "ValueError", id |-> model_id])
                                 /\ UNCHANGED <<sent, filters>>
                            ELSE /\ Sends(f, ClientPost(arg.self,
                                                async_get_paged_opendss_models(
                                                    <<PyInt(page_size), PyInt(advanced), PyNone, PyNone>>)))
                                 /\ UNCHANGED res
           ELSE /\ Returns(f, session_post(resp[f]))
                /\ UNCHANGED <<sent, filters, offset>>
        /\ UNCHANGED <<op, arg, resp, coll>>

\* The task of the coroutine is done and run_until_complete returns to the
\* blocking method, which returns to its caller.
run_until_complete_returns ==
    /\ pc["blocking"] = "completed"
    /\ res' = [res EXCEPT !["blocking"] = run_until_complete(res["blocking"])]
    /\ pc' = [pc EXCEPT !["blocking"] = "done"]
    /\ UNCHANGED <<op, arg, resp, sent, coll, offset, filters>>

NextForms ==
    \/ blocking_method_called
    \/ coroutine_starts
    \/ coroutine_resumes
    \/ coroutine_reads_body
    \/ run_until_complete_returns
SpecForms == InitForms /\ [][NextForms]_vars

\* The requests a form has sent, in order.
RequestsOf(f) ==
    LET mine == SelectSeq(sent, LAMBDA x : x.form = f)
    IN  [i \in 1..Len(mine) |-> mine[i].request]

\* C19: for every remote operation the blocking method passes all its
\* arguments unchanged, in the same order, to the coroutine function and
\* runs the coroutine to completion: called with the same arguments against
\* the same behaviour of the server, the blocking form and the coroutine
\* send the same requests and yield the same return value or the same
\* raised error.  Violated: the blocking method gets its loop from
\* get_event_loop(), which raises RuntimeError in a thread that has no
\* current event loop (any thread but the main one, and the main one after
\* asyncio.run), and run_until_complete raises RuntimeError on a loop that
\* is closed or running; the blocking form then sends no request, where
\* the coroutine sends its request and yields the answer.
C19_BlockingEqualsAsync ==
    /\ pc["blocking"] # "idle" => arg.forwarded = arg.args
    /\ (pc["blocking"] = "done" /\ pc["async"] = "done") =>
          /\ RequestsOf("blocking") = RequestsOf("async")
          /\ res["blocking"] = res["async"]

\* An instance of C20 as stated: get_paged_opendss_models sends exactly one
\* HTTP request per invocation whatever the outcome.  Violated: when the
\* filter holds a value the mapper refuses, the call raises TypeError
\* before any request is sent.
C20_Original_ExactlyOneRequest ==
    (Called("get_paged_opendss_models") /\ pc = "done") => Len(sent) = 1

\* C20 (amended): no operation retries.  An operation other than
\* get_opendss_model sends at most one request per invocation: none when
\* building its body raises, exactly one otherwise, whatever the server
\* answers.  In get_opendss_model a failed page request ends the scan with
\* that error.  An error of the transport reaches the caller as it is.
C20_NoRetry ==
    /\ (IsClientOp /\ pc = "done") =>
          /\ Len(sent) = (IF Raised(AsyncBuilt(op, arg.args)) THEN 0 ELSE 1)
          /\ (sent # <<>> /\ resp.t = "error") => res = [kind |-> "raise", err |-> resp.err]
          /\ (sent # <<>> /\ resp.t = "response" /\ resp.r.status >= 400) =>
                res = [kind |-> "raise", err |-> "ClientResponseError", status |-> resp.r.status]
    /\ (Called("get_opendss_model") /\ sent # <<>> /\ "t" \in DOMAIN resp) =>
          /\ pc = "done"
          /\ resp.t = "error" => res = [kind |-> "raise", err |-> resp.err]
          /\ resp.t = "response" =>
                res = [kind |-> "raise", err |-> "ClientResponseError", status |-> resp.r.status]

\* The scan has been ended by a transport error on its second page request.
C20_Witness ==
    /\ Called("get_opendss_model")
    /\ pc = "done"
    /\ Len(sent) = 2
    /\ "t" \in DOMAIN resp
    /\ resp.t = "error"
    /\ res = [kind |-> "raise", err |-> resp.err]

\* C29 as stated: run_hosting_capacity_calibration leaves the caller's
\* generator_config object and its model unchanged: once the call has
\* returned or raised, generator_config.model is what the caller passed and
\* its transformer_tap_settings holds the value the caller had set, also
\* when a transformer_tap_settings argument was supplied.  Violated: with a
\* transformer_tap_settings argument the handler assigns it to
\* generator_config.model.transformer_tap_settings of the caller's object
\* (or assigns a new ModelConfig to generator_config.model).
C29_GeneratorConfigUnchanged ==
    (Called("run_hosting_capacity_calibration") /\ arg.args[5] # PyNone) =>
        /\ arg.after[5].fields.model = arg.args[5].fields.model
        /\ arg.after[5] = arg.args[5]

\* C26: when the server-side collection changes between the page requests
\* of a scan (a record on an already-scanned page is deleted, so that later
\* records move to lower offsets), get_opendss_model can raise not-found
\* for an id that was in the collection during the whole scan (the witness
\* below); while the collection is unchanged this never happens: a scan
\* that raised not-found for an id still in the collection has seen the
\* collection shrink.
C26_NotFoundForPresentOnlyWhenChanged ==
    (/\ Called("get_opendss_model")
     /\ pc = "done"
     /\ res = [kind |-> "raise", err |-> "ValueError", id |-> arg.v]
     /\ PositionsOf(coll, arg.v) # {}) =>
        Len(coll) < MaxModels

\* A scan has raised not-found for an id that is still in the collection,
\* after a record before it was deleted.
C26_Witness ==
    /\ Called("get_opendss_model")
    /\ pc = "done"
    /\ res = [kind |-> "raise", err |-> "ValueError", id |-> arg.v]
    /\ PositionsOf(coll, arg.v) # {}
    /\ Len(coll) = MaxModels - 1
    /\ Len(sent) >= 2

\* C30 as stated: the change a request makes to the warning filters when
\* certificate verification is disabled is confined to that request: once
\* an operation has finished, the process-wide warning filters are the same
\* as before the call.  Only requests add entries here, so the claim says
\* that whenever no call is under way (none was made yet, or the last one has
\* finished) the filters hold no entry added since the process started.
\* Violated: the filters are saved and restored around the creation of the
\* coroutine, not around its body, so the entry the body adds stays in the
\* filters of the process.
C30_FiltersRestored == (pc \in {"idle", "done"}) => filters = <<>>

(***************************************************************************)
(* Concurrent tasks on one shared client                                   *)
(***************************************************************************)

\* Tasks calling operations on the client at the same time.
MaxTasks == 2

\* Here op, resp, res and pc hold one value per task; arg holds the shared
\* client, the one generator_config object the tasks share, and each
\* task's arguments; sent holds the requests of all tasks in the order
\* they were sent, each with the task that sent it.
InitTasks ==
    /\ op = [t \in 1..MaxTasks |-> "none"]
    /\ \E self \in Clients :
          arg = [self |-> self,
                 generator_config |-> GeneratorConfig(ModelConfig(PyNone, PyStr("old_tap_settings")),
                                                      PyNone, PyNone),
                 args |-> [t \in 1..MaxTasks |-> <<>>]]
    /\ resp = [t \in 1..MaxTasks |-> NoResp]
    /\ res = [t \in 1..MaxTasks |-> NoRes]
    /\ sent = <<>>
    /\ coll = <<>>
    /\ offset = 0
    /\ filters = <<>>
    /\ pc = [t \in 1..MaxTasks |-> "idle"]

\* A task awaits an operation (a calibration, get_transformer_tap_settings
\* or get_hosting_capacity_calibration_sets).  The coroutine runs without
\* interruption up to its first await, the session.post of _do_post_request: the
\* calibration handler writes the tap settings into the shared
\* generator_config and builds the body; when that raises the call is over,
\* otherwise the request is sent and the task waits for the answer.
task_calls ==
    \E t \in 1..MaxTasks :
        /\ pc[t] = "idle"
        /\ \E call \in { <<"run_hosting_capacity_calibration",
                           <<PyStr("TEST CALIBRATION"), PyDateTime(2025, 7, 12, 0, 0, 0, 0, Naive),
                             PyNone, tap, arg.generator_config>>>> :
                             tap \in {PyStr("tap_settings_1"), PyStr("tap_settings_2")} }
                       \cup { <<"get_transformer_tap_settings", a>> :
                                a \in Arguments.get_transformer_tap_settings }
                       \cup { <<"get_hosting_capacity_calibration_sets", <<>>>> } :
              \E built \in { AsyncBuilt(call[1], call[2]) } :
                /\ op' = [op EXCEPT ![t] = call[1]]
                /\ arg' = [arg EXCEPT
                             !.args[t] = call[2],
                             !.generator_config =
                                 IF call[1] = "run_hosting_capacity_calibration"
                                 THEN calibration_generator_config(call[2][4], call[2][5])
                                 ELSE @]
                /\ IF Raised(built)
                   THEN /\ res' = [res EXCEPT ![t] = [kind |-> "raise", err |-> built.err]]
                        /\ pc' = [pc EXCEPT ![t] = "done"]
                        /\ UNCHANGED <<sent, filters>>
                   ELSE /\ sent' = Append(sent, [task |-> t, request |-> ClientPost(arg.self, built)])
                        /\ filters' = catch_warnings(arg.self, filters)
                        /\ pc' = [pc EXCEPT ![t] = "awaiting"]
                        /\ UNCHANGED res
        /\ UNCHANGED <<resp, coll, offset>>

\* The answer to a task's request arrives, in any order among the tasks,
\* and the task is resumed with it: with a response that is ok it goes on
\* to "await response.json()", otherwise its call is over.
task_resumes ==
    \E t \in 1..MaxTasks, outcome \in Outcomes :
        /\ pc[t] = "awaiting"
        /\ resp' = [resp EXCEPT ![t] = outcome]
        /\ IF outcome.t = "response" /\ responseOk(outcome.r)
           THEN res' = res /\ pc' = [pc EXCEPT ![t] = "reading"]
           ELSE /\ res' = [res EXCEPT ![t] = session_post(outcome)]
                /\ pc' = [pc EXCEPT ![t] = "done"]
        /\ UNCHANGED <<op, arg, sent, coll, offset, filters>>

\* The body of a task's response is in and the task is resumed in
\* "return await response.json()": its call is over.
task_returns ==
    \E t \in 1..MaxTasks :
        /\ pc[t] = "reading"
        /\ res' = [res EXCEPT ![t] = session_post(resp[t])]
        /\ pc' = [pc EXCEPT ![t] = "done"]
        /\ UNCHANGED <<op, arg, resp, sent, coll, offset, filters>>

NextTasks == task_calls \/ task_resumes \/ task_returns
SpecTasks == InitTasks /\ [][NextTasks]_vars

\* C21 as stated: when several tasks call operations concurrently on one
\* shared client, each call sends the payload built from its own arguments
\* and receives the response to its own request; two concurrent calibration
\* calls that share one generator_config object and pass different
\* transformer_tap_settings each send their own value.  Violated: a
\* calibration call with a generator_config sends nothing, it raises
\* AttributeError while building its body (see C13).
C21_EachTaskSendsItsOwnPayload ==
    \A t \in 1..MaxTasks :
        pc[t] # "idle" =>
            \E i \in 1..Len(sent) :
                /\ sent[i].task = t
                /\ \A j \in 1..Len(sent) : sent[j].task = t => j = i
                /\ pc[t] = "done" => res[t] = session_post(resp[t])
                /\ IF op[t] = "run_hosting_capacity_calibration"
                   THEN sent[i].request.json.variables.m["generatorConfig"].m[Key.model].m[Key.transformerTapSettings]
                            = arg.args[t][4]
                   ELSE sent[i].request.json = AsyncBuilt(op[t], arg.args[t])

=============================================================================
